---------------------------- MODULE Spec2Model ----------------------------
(***************************************************************************)
(* A model of the srcrs codecs: the VPK file handle (src/src/vpk/reader.rs),*)
(* the KV token reader (src/src/kv/token_reader.rs) and the KV character    *)
(* reader with its recursive-descent parser (src/src/kv/char_reader.rs,     *)
(* src/src/kv/reader.rs).                                                   *)
(*                                                                         *)
(* Several specifications share the module (SpecVPK, SpecTok, SpecKV, ...). *)
(* Each one leaves the variables it does not use at Idle.                  *)
(*                                                                         *)
(* Conventions.                                                            *)
(*  - A u64/usize value is written as the integer nearest zero that is      *)
(*    congruent to it modulo 2^64: a negative r stands for 2^64 + r.        *)
(*  - A u32 checksum is the set of the positions of its one bits.           *)
(*  - A character is a one-character string; a text is a tuple of them.     *)
(*  - debug is the build profile: TRUE when debug assertions and overflow   *)
(*    checks are compiled in (cargo build / cargo test), FALSE for          *)
(*    --release.                                                            *)
(***************************************************************************)
EXTENDS Integers, Sequences, FiniteSets, TLC

VARIABLES
    debug,      \* build profile
    meta,       \* VPK: the VPKFile entry the handle refers to
    disk,       \* VPK: the bytes of the backing archive file
    file,       \* VPK: the File handle (fs_file, its cursor, position)
    out,        \* VPK: the outcome of the last operation on the handle
    tr,         \* KV: the TokenReader
    tpc,        \* KV: where the TokenReader's caller is
    kvin,       \* KV: the byte source handed to KeyValues::from_io
    kvres,      \* KV: what KeyValues::from_io returned
    vpkin,      \* VPK: the directory file handed to VPK::load
    vpkres,     \* VPK: what VPK::load returned
    kvget,      \* KV: the last lookup in the parsed KeyValues and its result
    tk,         \* KV: the Tokenizer
    tkout,      \* KV: what next_token, or Object::from_io, returned
    cr          \* KV: the CharReader and what its last call returned

vars == <<debug, meta, disk, file, out, tr, tpc, kvin, kvres, vpkin, vpkres,
          kvget, tk, tkout, cr>>

Idle == "idle"

Min(a, b) == IF a <= b THEN a ELSE b
Max(a, b) == IF a >= b THEN a ELSE b

(***************************************************************************)
(* Unsigned 64-bit arithmetic on the representatives.                       *)
(***************************************************************************)
\* a < b as unsigned values
U64Lt(a, b) ==
    IF (a < 0) = (b < 0) THEN a < b ELSE b < 0

\* a + b does not fit in 64 bits
AddOverflows(a, b) ==
    \/ a < 0 /\ b < 0
    \/ (a < 0) # (b < 0) /\ a + b >= 0

\* usize::min
UMin(a, b) == IF U64Lt(a, b) THEN a ELSE b

(***************************************************************************)
(* VPK file handle                                                          *)
(***************************************************************************)
MaxPreload == 2
MaxArchive == 2
MaxOffset == 1
Trail == 1
MaxBuf == 3
MaxSeek == 3

\* The byte stored at offset i of the archive file; every offset holds a
\* different byte, none of them a preload byte or the zero a buffer starts with.
DiskByte(i) == 16 + i

\* The preload bytes of an entry with p of them.
PreloadBytes(p) == [i \in 1..p |-> i]

\* A caller's buffer of n bytes (vec![0u8; n]).
ZeroBuf(n) == [i \in 1..n |-> 0]

\* crc32fast::hash: the IEEE CRC-32 (reflected, polynomial 0xEDB88320)
CrcPoly == {5, 8, 9, 15, 19, 20, 21, 23, 24, 26, 27, 29, 30, 31}
AllOnes32 == 0..31
Xor32(a, b) == (a \ b) \cup (b \ a)
ByteBits(b) == {i \in 0..7 : (b \div (2 ^ i)) % 2 = 1}
Shr1(a) == {i - 1 : i \in a \ {0}}
CrcBit(c) == IF 0 \in c THEN Xor32(Shr1(c), CrcPoly) ELSE Shr1(c)
CrcByte(c, b) ==
    CrcBit(CrcBit(CrcBit(CrcBit(CrcBit(CrcBit(CrcBit(CrcBit(Xor32(c, ByteBits(b))))))))))

RECURSIVE CrcFold(_, _, _)
CrcFold(c, data, i) ==
    IF i > Len(data) THEN c ELSE CrcFold(CrcByte(c, data[i]), data, i + 1)

Crc32(data) == AllOnes32 \ CrcFold(AllOnes32, data, 1)

\* The logical content of the entry: preload bytes, then its archive bytes.
Logical(m, d) ==
    m.preload_data \o [i \in 1..m.archive_length |-> d[m.archive_offset + i]]

\* fs::File::read on the backing file at cursor cur into a slice of len bytes:
\* the bytes read (none at or past the end of the file).
FsRead(d, cur, len) ==
    LET avail == IF cur >= 0 /\ cur < Len(d) THEN Len(d) - cur ELSE 0
        k == Min(len, avail)
    IN  [i \in 1..k |-> d[cur + i]]

\* buf with data written at index start (0-based), as a slice write does
Splice(buf, start, data) ==
    [i \in 1..Len(buf) |->
        IF i > start /\ i <= start + Len(data) THEN data[i - start] ELSE buf[i]]

\* VPK::get on an entry of the index
get(m) ==
    IF m.archive_length = 0
    THEN [open |-> FALSE, cursor |-> 0, position |-> 0]
    ELSE [open |-> TRUE, cursor |-> m.archive_offset, position |-> 0]

\* impl Read for File: the outcome of read(buf) on handle h
\* [status, ret, buf, file]
File_read(h, m, d, dbg, buf) ==
    LET preload_len == Len(m.preload_data)
        total_size == m.archive_length + preload_len
        position == h.position
        underflow == U64Lt(total_size, position)
        maximum_read == UMin(total_size - position, Len(buf))
        panic == [status |-> "panic", ret |-> 0, buf |-> buf, file |-> h]
    IN  IF underflow /\ dbg THEN panic
        ELSE IF U64Lt(position, preload_len)
        THEN LET maximum_preload_read == Min(preload_len - position, maximum_read)
                 pre == [i \in 1..maximum_preload_read |-> m.preload_data[position + i]]
                 buf1 == Splice(buf, 0, pre)
             IN  IF h.open
                 THEN IF maximum_preload_read > maximum_read - maximum_preload_read
                      THEN panic
                      ELSE LET got == FsRead(d, h.cursor,
                                        maximum_read - 2 * maximum_preload_read)
                           IN  [status |-> "ok",
                                ret |-> maximum_preload_read + Len(got),
                                buf |-> Splice(buf1, maximum_preload_read, got),
                                file |-> [h EXCEPT !.cursor = @ + Len(got)]]
                 ELSE [status |-> "ok", ret |-> maximum_preload_read,
                       buf |-> buf1, file |-> h]
        ELSE IF h.open
        THEN LET got == FsRead(d, h.cursor, maximum_read)
             IN  [status |-> "ok", ret |-> maximum_read,
                  buf |-> Splice(buf, 0, got),
                  file |-> [h EXCEPT !.cursor = @ + Len(got)]]
        ELSE [status |-> "ok", ret |-> 0, buf |-> buf, file |-> h]

\* impl Seek for File: pos is [from, offset]; [status, ret, file]
File_seek(h, m, dbg, pos) ==
    LET preload_len == Len(m.preload_data)
        addpanic == pos.from = "Current" /\ dbg /\ AddOverflows(h.position, pos.offset)
        position == CASE pos.from = "Current" -> h.position + pos.offset
                      [] pos.from = "End" -> m.archive_length + pos.offset
                      [] OTHER -> pos.offset
        h1 == [h EXCEPT !.position = position]
        file_position == IF position < 0 THEN position - preload_len
                         ELSE Max(position - preload_len, 0)
        target == m.archive_offset + file_position
    IN  IF addpanic THEN [status |-> "panic", ret |-> 0, file |-> h]
        ELSE IF ~h.open THEN [status |-> "ok", ret |-> position, file |-> h1]
        ELSE IF dbg /\ AddOverflows(m.archive_offset, file_position)
        THEN [status |-> "panic", ret |-> 0, file |-> h1]
        ELSE IF target < 0
        THEN [status |-> "err", ret |-> 0, file |-> h1]
        ELSE [status |-> "ok", ret |-> position,
              file |-> [h1 EXCEPT !.cursor = target]]

\* File::len
File_len(m) == m.archive_length

\* File::calc_crc32: [status, crc, file]
File_calc_crc32(h, m, d, dbg) ==
    LET s == File_seek(h, m, dbg, [from |-> "Start", offset |-> 0])
        r == File_read(s.file, m, d, dbg, ZeroBuf(File_len(m)))
    IN  IF s.status # "ok" THEN [status |-> s.status, crc |-> {}, file |-> s.file]
        ELSE IF r.status # "ok" THEN [status |-> r.status, crc |-> {}, file |-> r.file]
        ELSE [status |-> "ok", crc |-> Crc32(r.buf), file |-> r.file]

\* File::verify: [status, file]
File_verify(h, m, d, dbg) ==
    LET old_position == h.position
        c == File_calc_crc32(h, m, d, dbg)
        s == File_seek(c.file, m, dbg, [from |-> "Start", offset |-> old_position])
    IN  IF c.status = "panic" THEN [status |-> "panic", file |-> c.file]
        ELSE IF s.status # "ok" THEN [status |-> s.status, file |-> s.file]
        ELSE IF c.status = "err" THEN [status |-> "err", file |-> s.file]
        ELSE IF c.crc # m.crc THEN [status |-> "err", file |-> s.file]
        ELSE [status |-> "ok", file |-> s.file]

\* The entries of the index the handle may be taken on, each with its archive
\* file: o bytes of other entries, the entry's a bytes, Trail bytes of the next
\* entry. The stored checksum is that of the content, or (tampered) differs from
\* it in one bit.
Entries ==
    { [m |-> [crc |-> IF tampered THEN Xor32(Crc32(content), {0}) ELSE Crc32(content),
              preload_data |-> PreloadBytes(p),
              archive_offset |-> o,
              archive_length |-> a],
       d |-> [i \in 1..(o + a + Trail) |-> DiskByte(i - 1)]] :
        <<p, a, o, tampered, content>> \in
          { <<p, a, o, b, PreloadBytes(p) \o [i \in 1..a |-> DiskByte(o + i - 1)]>> :
              <<p, a, o, b>> \in (0..MaxPreload) \X (0..MaxArchive) \X (0..MaxOffset)
                                   \X BOOLEAN } }

\* out: the operation, how it ended (ok, err, panic), the value it returned, the
\* caller's buffer after it, the position and backing-file cursor before it,
\* and the SeekFrom a seek was called with.
NoReq == [from |-> "none", offset |-> 0]
NoOut == [op |-> "get", status |-> "ok", ret |-> 0, buf |-> <<>>,
          at |-> 0, cur0 |-> 0, req |-> NoReq]

InitVPK ==
    /\ debug \in BOOLEAN
    /\ \E e \in Entries :
        /\ meta = e.m
        /\ disk = e.d
        /\ file = get(e.m)
    /\ out = NoOut
    /\ tr = Idle /\ tpc = Idle /\ kvin = Idle /\ kvres = Idle
    /\ vpkin = Idle /\ vpkres = Idle /\ kvget = Idle /\ cr = Idle /\ tk = Idle /\ tkout = Idle

KVIdle == UNCHANGED <<tr, tpc, kvin, kvres, vpkin, vpkres, kvget, tk, tkout, cr>>

Alive == out.status # "panic"

Read(n) ==
    /\ Alive
    /\ LET r == File_read(file, meta, disk, debug, ZeroBuf(n))
       IN  /\ file' = r.file
           /\ out' = [op |-> "read", status |-> r.status, ret |-> r.ret, buf |-> r.buf,
                      at |-> file.position, cur0 |-> file.cursor, req |-> NoReq]
    /\ UNCHANGED <<debug, meta, disk>> /\ KVIdle

Seek(pos) ==
    /\ Alive
    /\ LET r == File_seek(file, meta, debug, pos)
       IN  /\ r.file.position \in (-MaxSeek)..MaxSeek
           /\ file' = r.file
           /\ out' = [op |-> "seek", status |-> r.status, ret |-> r.ret, buf |-> <<>>,
                      at |-> file.position, cur0 |-> file.cursor, req |-> pos]
    /\ UNCHANGED <<debug, meta, disk>> /\ KVIdle

Verify ==
    /\ Alive
    /\ LET r == File_verify(file, meta, disk, debug)
       IN  /\ file' = r.file
           /\ out' = [op |-> "verify", status |-> r.status, ret |-> 0, buf |-> <<>>,
                      at |-> file.position, cur0 |-> file.cursor, req |-> NoReq]
    /\ UNCHANGED <<debug, meta, disk>> /\ KVIdle

LenCall ==
    /\ Alive
    /\ out' = [op |-> "len", status |-> "ok", ret |-> File_len(meta), buf |-> <<>>,
               at |-> file.position, cur0 |-> file.cursor, req |-> NoReq]
    /\ UNCHANGED <<debug, meta, disk, file>> /\ KVIdle

NextVPK ==
    \/ \E n \in 0..MaxBuf : Read(n)
    \/ \E k \in 0..MaxSeek : Seek([from |-> "Start", offset |-> k])
    \/ \E k \in (-MaxSeek)..MaxSeek : Seek([from |-> "Current", offset |-> k])
    \/ \E k \in (-MaxSeek)..MaxSeek : Seek([from |-> "End", offset |-> k])
    \/ Verify
    \/ LenCall

SpecVPK == InitVPK /\ [][NextVPK]_vars

(***************************************************************************)
(* Claims about the VPK file handle (under SpecVPK)                 *)
(***************************************************************************)
PreloadLen == Len(meta.preload_data)
TotalLen == Len(meta.preload_data) + meta.archive_length

\* C1: a read at a position p inside the preload region of an entry that has
\* both preload bytes and archive bytes does not panic, returns
\* min(n, P + A - p) bytes and fills the buffer with the logical content from
\* p onward (preload bytes, then archive bytes).
C1_ReadSplicesPreloadAndArchive ==
    (/\ out.op = "read"
     /\ PreloadLen > 0 /\ meta.archive_length > 0
     /\ out.at >= 0 /\ out.at < PreloadLen)
    => /\ out.status = "ok"
       /\ out.ret = Min(Len(out.buf), TotalLen - out.at)
       /\ \A i \in 1..out.ret : out.buf[i] = Logical(meta, disk)[out.at + i]

\* C2: a read at a position at or beyond the total logical length returns
\* Ok(0) and takes nothing from the backing file.
C2_ReadPastEndReturnsZero ==
    (out.op = "read" /\ ~U64Lt(out.at, TotalLen))
    => /\ out.status = "ok"
       /\ out.ret = 0
       /\ file.cursor = out.cur0

\* C9: verify does not panic and returns Ok exactly when the CRC-32 of the
\* whole logical content (preload bytes, then archive bytes) equals the stored
\* checksum.
C9_VerifyChecksLogicalContent ==
    (out.op = "verify" /\ out.at >= 0 /\ out.at <= TotalLen)
    => /\ out.status # "panic"
       /\ (out.status = "ok") <=> (Crc32(Logical(meta, disk)) = meta.crc)

\* C10: len returns the total logical length, preload buffer length plus
\* archive length.
C10_LenIsTotalLength ==
    out.op = "len" => out.ret = TotalLen

\* the absolute logical position a seek from position `at` asks for
SeekTarget(at, pos) ==
    CASE pos.from = "Start" -> pos.offset
      [] pos.from = "Current" -> at + pos.offset
      [] pos.from = "End" -> TotalLen + pos.offset

\* C11: a seek from a valid position to a target that is not negative does
\* not panic and returns (and leaves the handle at) the absolute logical
\* position of its origin: k for Start(k), position + k for Current(k),
\* total logical length + k for End(k).
C11_SeekComputesLogicalPosition ==
    (/\ out.op = "seek"
     /\ out.at >= 0
     /\ SeekTarget(out.at, out.req) >= 0)
    => /\ out.status = "ok"
       /\ out.ret = SeekTarget(out.at, out.req)
       /\ file.position = SeekTarget(out.at, out.req)

\* C12: seek(Start(k)) with 0 <= k <= total logical length returns k, and a
\* read that follows it into a buffer of total - k bytes returns total - k
\* bytes, the logical content from k to the end.
C12_SeekThenReadRemainder ==
    [][(/\ out.op = "seek" /\ out.req.from = "Start"
        /\ out.req.offset <= TotalLen
        /\ out'.op = "read"
        /\ Len(out'.buf) = TotalLen - out.req.offset)
       => /\ out.status = "ok" /\ out.ret = out.req.offset
          /\ out'.status = "ok"
          /\ out'.ret = TotalLen - out.req.offset
          /\ \A i \in 1..(TotalLen - out.req.offset) :
                out'.buf[i] = Logical(meta, disk)[out.req.offset + i]]_vars

\* what a read into a buffer of n bytes returns on handle h: how it ends, the
\* count and the bytes
ReadResult(h, n) ==
    LET r == File_read(h, meta, disk, debug, ZeroBuf(n))
    IN  <<r.status, r.ret, r.buf>>

\* C22: a verify that returns (Ok, or Err for a checksum mismatch) from a
\* position inside the file leaves the logical position where it was, and a
\* read after it returns what the same read would have returned without the
\* verify call.
C22_VerifyRestoresPosition ==
    [][(/\ out'.op = "verify" /\ out'.status # "panic"
        /\ file.position \in 0..TotalLen)
       => /\ file'.position = file.position
          /\ \A n \in 0..MaxBuf : ReadResult(file', n) = ReadResult(file, n)]_vars

\* C28: a read from a position inside the file that returns n bytes leaves
\* the logical position at the old position + n.
C28_ReadAdvancesPosition ==
    (out.op = "read" /\ out.status = "ok" /\ out.at \in 0..TotalLen)
    => file.position = out.at + out.ret

\* C29: after every operation that returned Ok on a handle with an open
\* backing file, the backing-file cursor is at archive_offset +
\* max(0, logical position - preload length).
C29_CursorConsistent ==
    (file.open /\ out.status = "ok" /\ file.position >= 0)
    => file.cursor = meta.archive_offset + Max(0, file.position - PreloadLen)

\* C30: the bytes a read at a position inside the file takes from the
\* backing file (those between the cursor before and after it) lie in the
\* entry's range [archive_offset, archive_offset + archive_length).
C30_ReadsStayInsideEntry ==
    (/\ out.op = "read" /\ out.status = "ok" /\ out.at \in 0..TotalLen
     /\ file.cursor > out.cur0)
    => /\ out.cur0 >= meta.archive_offset
       /\ file.cursor <= meta.archive_offset + meta.archive_length

(***************************************************************************)
(* The byte source (impl Read). A source holds data and delivers it in the  *)
(* pieces its cuts name: a read returns the bytes up to the next cut, at    *)
(* most cap of them, and 0 bytes only at the end of the data. A source      *)
(* without cuts is a byte slice. I/O errors are left out: an in-memory      *)
(* source has none.                                                         *)
(***************************************************************************)
MaxTokLen == 3

QUOTE == "\""
ESCAPE == "\\"
COMMENT == "/"
OPEN_BLOCK == "{"
CLOSE_BLOCK == "}"
OPEN_FLAG == "["
CLOSE_FLAG == "]"
NEGATE == "!"
NEWLINE == "\n"
SPACE == " "
\* the byte 0 a fresh buffer holds
NUL == "NUL"
\* Option::None of peek_char
None == "None"

\* The characters inputs are made of: every character the code tells apart,
\* one ordinary character, and two kinds of whitespace.
Alphabet == {"a", SPACE, NEWLINE, COMMENT, ESCAPE, QUOTE,
             OPEN_BLOCK, CLOSE_BLOCK, OPEN_FLAG, CLOSE_FLAG, NEGATE}

\* char::is_whitespace
is_whitespace(c) == c \in {SPACE, NEWLINE}

RECURSIVE Texts(_)
Texts(n) ==
    IF n = 0 THEN {<<>>}
    ELSE LET shorter == Texts(n - 1)
         IN  shorter \cup {Append(t, c) : t \in {x \in shorter : Len(x) = n - 1},
                                           c \in Alphabet}

SetMin(S) == CHOOSE x \in S : \A y \in S : x <= y

\* Read::read at offset off of the source into a buffer of cap bytes
SourceRead(data, cuts, off, cap) ==
    LET stop == SetMin({c \in cuts : c > off} \cup {Len(data), off + cap})
    IN  SubSeq(data, off + 1, stop)

(***************************************************************************)
(* TokenReader (src/src/kv/token_reader.rs)                                 *)
(*                                                                         *)
(* t.last_read holds the first max_read bytes of the buffer: the rewind     *)
(* slot and the bytes of the last read; the bytes behind them are never     *)
(* looked at. num_read only counts for diagnostics and is left out.         *)
(***************************************************************************)
REWIND_SIZE == 1
READ_SIZE == 1024

Token(tag, text) == [tag |-> tag, text |-> text]

TR_max_read(t) == Len(t.last_read)

\* TokenReader::peek_char
TR_peek_char(t) ==
    IF TR_max_read(t) = REWIND_SIZE THEN None ELSE t.last_read[t.position + 1]

\* TokenReader::advance_char
TR_advance_char(t) ==
    IF t.position + 1 >= TR_max_read(t)
    THEN LET chunk == SourceRead(t.data, t.cuts, t.off, READ_SIZE)
         IN  [t EXCEPT !.last_read = SubSeq(@, 1, REWIND_SIZE) \o chunk,
                       !.off = @ + Len(chunk),
                       !.position = REWIND_SIZE]
    ELSE [t EXCEPT !.position = @ + 1]

\* TokenReader::rewind_char
TR_rewind_char(t, rewind) ==
    [t EXCEPT !.last_read[t.position + 1] = rewind, !.position = @ - 1]

\* a consume_comment that stops behind the second / and keeps the line
ConsumeOnlySlash(t) == TR_advance_char(t)

\* TokenReader::consume_comment: the loop after the second / was skipped
RECURSIVE TR_comment_loop(_)
TR_comment_loop(t) ==
    LET data == TR_peek_char(t)
    IN  IF data = None THEN t
        ELSE IF data = NEWLINE THEN TR_advance_char(t)
        ELSE TR_comment_loop(TR_advance_char(t))

TR_consume_comment(t) == TR_comment_loop(TR_advance_char(t))

\* TokenReader::consume_whitespace
RECURSIVE TR_whitespace_loop(_)
TR_whitespace_loop(t) ==
    LET data == TR_peek_char(t)
    IN  IF data = None \/ ~is_whitespace(data) THEN t
        ELSE TR_whitespace_loop(TR_advance_char(t))

TR_consume_whitespace(t) == TR_whitespace_loop(TR_advance_char(t))

\* TokenReader::read_quoted_text: [t, text]
RECURSIVE TR_quoted_loop(_, _)
TR_quoted_loop(t, new_string) ==
    LET data == TR_peek_char(t)
    IN  IF data = None THEN [t |-> t, text |-> new_string]
        ELSE IF data = QUOTE THEN [t |-> TR_advance_char(t), text |-> new_string]
        ELSE TR_quoted_loop(TR_advance_char(t), Append(new_string, data))

\* a read_quoted_text that does not step over the opening quote
QuotedWithoutSkip(t) == TR_quoted_loop(t, <<>>)

TR_read_quoted_text(t) == TR_quoted_loop(TR_advance_char(t), <<>>)

\* what read_unquoted_text appends for an escape
EscapePush(new_string, escaped, data) == Append(Append(new_string, escaped), data)

\* TokenReader::read_unquoted_text: [t, text]
RECURSIVE TR_unquoted_loop(_, _)
TR_unquoted_loop(t, new_string) ==
    LET data == TR_peek_char(t)
        t1 == TR_advance_char(t)
        peek1 == TR_peek_char(t1)
    IN  IF data = None THEN [t |-> t, text |-> new_string]
        ELSE IF data \in {OPEN_BLOCK, CLOSE_BLOCK, OPEN_FLAG, CLOSE_FLAG, NEGATE}
                \/ is_whitespace(data)
        THEN [t |-> t, text |-> new_string]
        ELSE IF data = ESCAPE
        THEN IF peek1 = None
             THEN [t |-> t1, text |-> Append(new_string, ESCAPE)]
             ELSE TR_unquoted_loop(TR_advance_char(t1),
                                   EscapePush(new_string, peek1, data))
        ELSE IF data = COMMENT
        THEN IF peek1 = None
             THEN [t |-> t1, text |-> Append(new_string, COMMENT)]
             ELSE IF peek1 = COMMENT
             THEN [t |-> TR_consume_comment(t1), text |-> new_string]
             ELSE TR_unquoted_loop(t1, Append(new_string, data))
        ELSE TR_unquoted_loop(t1, Append(new_string, data))

TR_read_unquoted_text(t) == TR_unquoted_loop(t, <<>>)

\* what advance does with a / that no second / follows (new_peek is the
\* character after it): [t, ctl, branch]
TR_lone_slash(t1, new_peek, dbg) ==
    IF t1.position = 0 /\ dbg
    THEN [t |-> t1, ctl |-> "panic", branch |-> "rewind"]
    ELSE [t |-> TR_rewind_char(t1, new_peek), ctl |-> "continue", branch |-> "rewind"]

\* what advance does at a quote: [t, ctl, branch]
TR_quoted(t) ==
    LET r == TR_read_quoted_text(t)
    IN  [t |-> [r.t EXCEPT !.last_token = Token("Text", r.text)],
         ctl |-> "break", branch |-> "quoted"]

\* One iteration of the loop of TokenReader::advance: [t, ctl, branch], ctl
\* is break, continue or panic and branch names the arm taken.
TR_advance_iter(t, dbg) ==
    LET ch == IF t.position \in 0..(TR_max_read(t) - 1) \/ TR_max_read(t) = REWIND_SIZE
              THEN TR_peek_char(t) ELSE "OutOfBounds"
        t1 == TR_advance_char(t)
        new_peek == TR_peek_char(t1)
        struct(tag) == [t |-> [t1 EXCEPT !.last_token = Token(tag, <<>>)],
                        ctl |-> "break", branch |-> "struct"]
    IN  CASE ch = "OutOfBounds" -> [t |-> t, ctl |-> "panic", branch |-> "eof"]
          [] ch = None ->
                [t |-> [t EXCEPT !.last_token = Token("Eof", <<>>)],
                 ctl |-> "break", branch |-> "eof"]
          [] ch = OPEN_BLOCK -> struct("OpenBlock")
          [] ch = CLOSE_BLOCK -> struct("CloseBlock")
          [] ch = OPEN_FLAG -> struct("OpenFlag")
          [] ch = CLOSE_FLAG -> struct("CloseFlag")
          [] ch = NEGATE -> struct("Negate")
          [] OTHER ->
                IF is_whitespace(ch)
                THEN [t |-> TR_consume_whitespace(t), ctl |-> "continue",
                      branch |-> "whitespace"]
                ELSE IF ch = COMMENT
                THEN IF new_peek = None
                     THEN [t |-> [t1 EXCEPT !.last_token = Token("Text", <<ch>>)],
                           ctl |-> "break", branch |-> "slash_eof"]
                     ELSE IF new_peek # COMMENT
                     THEN TR_lone_slash(t1, new_peek, dbg)
                     ELSE [t |-> TR_consume_comment(t1), ctl |-> "continue",
                           branch |-> "comment"]
                ELSE IF ch = QUOTE
                THEN TR_quoted(t)
                ELSE LET r == TR_read_unquoted_text(t)
                     IN  [t |-> [r.t EXCEPT !.last_token = Token("Text", r.text)],
                          ctl |-> "break", branch |-> "unquoted"]

\* TokenReader::from_io up to its call of advance
TR_from_io(data, cuts) ==
    LET chunk == SourceRead(data, cuts, 0, READ_SIZE)
    IN  [data |-> data, cuts |-> cuts, off |-> Len(chunk),
         last_read |-> <<NUL>> \o chunk,
         last_token |-> Token("Eof", <<>>),
         position |-> REWIND_SIZE]

\* The offset in the data of the character peek_char returns.
TR_offset(t) == t.off - (TR_max_read(t) - t.position)

(***************************************************************************)
(* tpc: from_io (inside the advance call of from_io), advance (inside a     *)
(* later advance call), ready (the call returned: peek gives tr.last_token) *)
(* or panic. tpc.branch is the arm the last iteration took, tpc.at the      *)
(* offset in the data at which it started, tpc.n the number of iterations   *)
(* the current call has run. On these inputs a call that returns does so    *)
(* within MaxTokLen + 1 iterations; the model follows a call for MaxIter.   *)
(***************************************************************************)
MaxIter == MaxTokLen + 2

InitTok ==
    /\ debug \in BOOLEAN
    /\ \E data \in Texts(MaxTokLen) : \E cuts \in SUBSET (1..(Len(data) - 1)) :
        tr = TR_from_io(data, cuts)
    /\ tpc = [pc |-> "from_io", branch |-> "none", at |-> 0, n |-> 0]
    /\ meta = Idle /\ disk = Idle /\ file = Idle /\ out = Idle
    /\ kvin = Idle /\ kvres = Idle
    /\ vpkin = Idle /\ vpkres = Idle /\ kvget = Idle /\ cr = Idle /\ tk = Idle /\ tkout = Idle

TokStep(calling) ==
    LET r == TR_advance_iter(tr, debug)
    IN  /\ tr' = r.t
        /\ tpc' = [pc |-> CASE r.ctl = "break" -> "ready"
                            [] r.ctl = "panic" -> "panic"
                            [] OTHER -> IF calling THEN "advance" ELSE tpc.pc,
                   branch |-> r.branch,
                   at |-> TR_offset(tr),
                   n |-> IF calling THEN 1 ELSE tpc.n + 1]
        /\ UNCHANGED <<debug, meta, disk, file, out, kvin, kvres, vpkin, vpkres, kvget, tk, tkout, cr>>

\* the caller calls advance(): its first iteration
TokAdvance == tpc.pc = "ready" /\ TokStep(TRUE)

\* advance() continues its loop
TokLoop == tpc.pc \in {"from_io", "advance"} /\ tpc.n < MaxIter /\ TokStep(FALSE)

NextTok == TokAdvance \/ TokLoop

SpecTok == InitTok /\ [][NextTok]_vars

(***************************************************************************)
(* Claims about TokenReader (under SpecTok)                         *)
(***************************************************************************)
\* The characters of the data the last iteration consumed.
TokRaw == SubSeq(tr.data, tpc.at + 1, TR_offset(tr))

\* raw with every backslash dropped and the character after it kept; a
\* backslash that ends raw is kept.
RECURSIVE UnescapeFrom(_, _)
UnescapeFrom(raw, i) ==
    IF i > Len(raw) THEN <<>>
    ELSE IF raw[i] = ESCAPE /\ i < Len(raw)
    THEN <<raw[i + 1]>> \o UnescapeFrom(raw, i + 2)
    ELSE <<raw[i]>> \o UnescapeFrom(raw, i + 1)

\* C3: when advance finds a / that is followed by a character other than /,
\* it pushes the / back and the next iteration reads it as ordinary unquoted
\* text: advance returns with a Text token that starts with /.
C3_LoneSlashReadAsText ==
    [][(tpc.pc \in {"from_io", "advance"} /\ tpc.branch = "rewind")
         => /\ tpc'.pc = "ready"
            /\ tr'.last_token.tag = "Text"
            /\ Len(tr'.last_token.text) >= 1
            /\ tr'.last_token.text[1] = COMMENT]_vars

\* C4: in an unquoted text a backslash followed by a character c contributes
\* exactly c to the token text and the backslash itself does not appear
\* (stated for the tokens without a /, which comment handling does not touch).
C4_UnquotedEscapeDropsBackslash ==
    (/\ tpc.pc = "ready" /\ tpc.branch = "unquoted"
     /\ \A i \in 1..Len(TokRaw) : TokRaw[i] # COMMENT)
    => tr.last_token.text = UnescapeFrom(TokRaw, 1)

\* C5: advance never returns a Text token for a quoted text whose closing
\* quote is missing: a quoted token it returns was closed by a quote.
C5_UnterminatedQuoteIsError ==
    (tpc.pc = "ready" /\ tpc.branch = "quoted")
    => Len(TokRaw) >= 2 /\ TokRaw[Len(TokRaw)] = QUOTE

\* C31: every call of advance terminates and a finite number of calls reaches
\* the End token, which then stays. The code is deterministic, so a call
\* terminates exactly when no iteration of its loop that continues leaves the
\* reader as it found it; the calls reach End when every call that returns
\* leaves the reader further in its input or at End; and End stays when a
\* call made at End returns with End.
C31_AdvanceTerminates ==
    [][/\ (tpc.pc \in {"from_io", "advance"} /\ tpc'.pc \in {"from_io", "advance"})
            => tr' # tr
       /\ (tpc.pc = "ready" /\ tpc'.pc = "ready")
            => \/ TR_offset(tr') > TR_offset(tr)
               \/ tr'.last_token.tag = "Eof"
       /\ (tpc.pc = "ready" /\ tr.last_token.tag = "Eof")
            => (tpc'.pc = "ready" /\ tr'.last_token.tag = "Eof")]_vars

(***************************************************************************)
(* Unquoted text with comments: the TokenReader on inputs long enough to    *)
(* hold a token, a // comment, the end of its line and the line after it.   *)
(* The source delivers the input whole or in two reads.                     *)
(***************************************************************************)
MaxUnqLen == 5

UnqAlphabet == {"a", COMMENT, NEWLINE, OPEN_BLOCK}

RECURSIVE TextsOver(_, _)
TextsOver(A, n) ==
    IF n = 0 THEN {<<>>}
    ELSE LET shorter == TextsOver(A, n - 1)
         IN  shorter \cup {Append(t, c) : t \in {x \in shorter : Len(x) = n - 1},
                                           c \in A}

\* no cut, or one cut
OneCut(data) == {{}} \cup {{k} : k \in 1..(Len(data) - 1)}

InitUnq ==
    /\ debug \in BOOLEAN
    /\ \E data \in TextsOver(UnqAlphabet, MaxUnqLen) : \E cuts \in OneCut(data) :
        tr = TR_from_io(data, cuts)
    /\ tpc = [pc |-> "from_io", branch |-> "none", at |-> 0, n |-> 0]
    /\ meta = Idle /\ disk = Idle /\ file = Idle /\ out = Idle
    /\ kvin = Idle /\ kvres = Idle
    /\ vpkin = Idle /\ vpkres = Idle /\ kvget = Idle /\ cr = Idle /\ tk = Idle /\ tkout = Idle

SpecUnq == InitUnq /\ [][NextTok]_vars

\* The index in raw of the first / that a second / follows; 0 when none.
FirstComment(raw) ==
    LET at == {i \in 1..(Len(raw) - 1) : raw[i] = COMMENT /\ raw[i + 1] = COMMENT}
    IN  IF at = {} THEN 0 ELSE SetMin(at)

\* C32: in an unquoted text that read_unquoted_text reads (the token does not
\* start with /, which advance handles itself) a / followed by a second /
\* ends the token, neither / is in the text, and the reader is left at the
\* start of the following line (or at the end of the input when the comment
\* is on the last line), so the next token is the first one of that line;
\* without a // the text is the characters read, every / among them once,
\* also a / that ends the input.
C32_UnquotedSlashAndComment ==
    (/\ tpc.pc = "ready" /\ tpc.branch = "unquoted"
     /\ TokRaw[1] # COMMENT
     /\ \A i \in 1..Len(TokRaw) : TokRaw[i] # ESCAPE)
    => LET raw == TokRaw
           k == FirstComment(raw)
       IN  IF k = 0 THEN tr.last_token = Token("Text", raw)
           ELSE /\ tr.last_token = Token("Text", SubSeq(raw, 1, k - 1))
                /\ \A i \in (k + 2)..(Len(raw) - 1) : raw[i] # NEWLINE
                /\ \/ raw[Len(raw)] = NEWLINE /\ Len(raw) >= k + 2
                   \/ TR_offset(tr) = Len(tr.data)

\* reached: a//, the end of the line, and a token on the next line
C32_Witness ==
    /\ tpc.pc = "ready" /\ tpc.branch = "unquoted"
    /\ tr.data = <<"a", COMMENT, COMMENT, NEWLINE, "a">>
    /\ tr.cuts = {2}
    /\ tr.last_token = Token("Text", <<"a">>)
    /\ TR_offset(tr) = 4

(***************************************************************************)
(* Quoted text: the TokenReader on a quoted text of up to MaxQuoLen         *)
(* characters of any kind but the quote, closed by a quote, with or without *)
(* a character behind it.                                                   *)
(***************************************************************************)
MaxQuoLen == 3

QuoBodies == TextsOver(Alphabet \ {QUOTE}, MaxQuoLen)

QuoTails == {<<>>, <<"a">>}

InitQuo ==
    /\ debug \in BOOLEAN
    /\ \E body \in QuoBodies : \E tail \in QuoTails :
         LET data == <<QUOTE>> \o body \o <<QUOTE>> \o tail
         IN  \E cuts \in OneCut(data) : tr = TR_from_io(data, cuts)
    /\ tpc = [pc |-> "from_io", branch |-> "none", at |-> 0, n |-> 0]
    /\ meta = Idle /\ disk = Idle /\ file = Idle /\ out = Idle
    /\ kvin = Idle /\ kvres = Idle
    /\ vpkin = Idle /\ vpkres = Idle /\ kvget = Idle /\ cr = Idle /\ tk = Idle /\ tkout = Idle

SpecQuo == InitQuo /\ [][NextTok]_vars

\* The index in s of the first quote behind index from; 0 when none.
NextQuote(s, from) ==
    LET at == {i \in (from + 1)..Len(s) : s[i] = QUOTE}
    IN  IF at = {} THEN 0 ELSE SetMin(at)

\* C33: the text of a quoted token is the characters between its opening
\* quote and the next quote, unchanged (whitespace, { } [ ] !, backslashes
\* and // included), and the reader is left behind that closing quote.
C33_QuotedTextVerbatim ==
    (tpc.pc = "ready" /\ tpc.branch = "quoted")
    => LET open == tpc.at + 1
           close == NextQuote(tr.data, open)
       IN  close # 0
           => /\ tr.last_token = Token("Text", SubSeq(tr.data, open + 1, close - 1))
              /\ TR_offset(tr) = close

\* reached: a quoted text that holds // and a backslash, delivered in two reads
C33_Witness ==
    /\ tpc.pc = "ready" /\ tpc.branch = "quoted"
    /\ tr.data = <<QUOTE, COMMENT, COMMENT, ESCAPE, QUOTE, "a">>
    /\ tr.cuts = {2}
    /\ tr.last_token = Token("Text", <<COMMENT, COMMENT, ESCAPE>>)
    /\ TR_offset(tr) = 5

(***************************************************************************)
(* CharReader (src/src/kv/char_reader.rs)                                   *)
(*                                                                         *)
(* c.last_read holds the max_read bytes of the last read. num_read only     *)
(* counts for diagnostics and is left out. c.open_eof is an observation,    *)
(* not a field of the struct: the parser sets it when it finds the end of   *)
(* the input where the } of an open block is due.                           *)
(***************************************************************************)
MaxKVLen == 3

CR_READ_SIZE == 1024

ReadChar(tag, ch) == [tag |-> tag, ch |-> ch]
Normal(ch) == ReadChar("Normal", ch)
Escaped(ch) == ReadChar("Escaped", ch)
Whitespace == ReadChar("Whitespace", None)
Eof == ReadChar("Eof", None)

\* ReadChar::is_char
is_char(r) == r.tag \in {"Normal", "Escaped"}

\* CharReader::peek_char
CR_peek_char(c) ==
    IF Len(c.last_read) = 0 THEN None ELSE c.last_read[c.position + 1]

\* an advance_char that takes a read shorter than the buffer for the last one
AdvanceCharShortReadIsLast(c) ==
    IF c.position + 1 >= Len(c.last_read)
    THEN LET chunk == IF Len(c.last_read) < CR_READ_SIZE THEN <<>>
                      ELSE SourceRead(c.data, c.cuts, c.off, CR_READ_SIZE)
         IN  [c EXCEPT !.last_read = chunk, !.off = @ + Len(chunk), !.position = 0]
    ELSE [c EXCEPT !.position = @ + 1]

\* CharReader::advance_char
CR_advance_char(c) ==
    IF c.position + 1 >= Len(c.last_read)
    THEN LET chunk == SourceRead(c.data, c.cuts, c.off, CR_READ_SIZE)
         IN  [c EXCEPT !.last_read = chunk, !.off = @ + Len(chunk), !.position = 0]
    ELSE [c EXCEPT !.position = @ + 1]

\* a consume_comment that leaves the comment in the input
ConsumeCommentNothing(c) == c

\* CharReader::consume_comment
RECURSIVE CR_consume_comment(_)
CR_consume_comment(c) ==
    LET data == CR_peek_char(c)
    IN  IF data = None THEN c
        ELSE IF data = NEWLINE THEN CR_advance_char(c)
        ELSE CR_consume_comment(CR_advance_char(c))

\* The results of the fallible operations: st is ok, err or panic, e the
\* error (IO, InvalidChar, UnexpectedEof), c the reader, v the value.
Ok(c, v) == [st |-> "ok", e |-> "", c |-> c, v |-> v]
Err(c, e) == [st |-> "err", e |-> e, c |-> c, v |-> <<>>]
Panic(c) == [st |-> "panic", e |-> "", c |-> c, v |-> <<>>]

\* what advance_internal does with a character inside or outside quotes
CR_classify(c1, data) ==
    IF data = QUOTE
    THEN [c1 EXCEPT !.is_quoted = ~@, !.last_token = Normal(data)]
    ELSE IF c1.is_quoted THEN [c1 EXCEPT !.last_token = Normal(data)]
    ELSE IF is_whitespace(data) THEN [c1 EXCEPT !.last_token = Whitespace]
    ELSE [c1 EXCEPT !.last_token = Normal(data)]

\* CharReader::advance_internal, from the match on old_peek; c1 is the
\* reader after advance_char
CR_match_old_peek(old_peek, c1) ==
    IF old_peek = None THEN Ok([c1 EXCEPT !.last_token = Eof], <<>>)
    ELSE IF old_peek = ESCAPE
    THEN IF CR_peek_char(c1) = None THEN Err(c1, "IO")
         ELSE Ok([CR_advance_char(c1) EXCEPT
                     !.last_token = Escaped(CR_peek_char(c1))], <<>>)
    ELSE IF old_peek = COMMENT /\ ~c1.is_quoted /\ CR_peek_char(c1) = COMMENT
    THEN Ok([CR_consume_comment(c1) EXCEPT !.last_token = Whitespace], <<>>)
    ELSE IF old_peek = COMMENT THEN Ok([c1 EXCEPT !.last_token = Normal(old_peek)], <<>>)
    ELSE Ok(CR_classify(c1, old_peek), <<>>)

\* CharReader::advance_internal
CR_advance_internal(c) == CR_match_old_peek(CR_peek_char(c), CR_advance_char(c))

\* CharReader::advance: the loop over a run of whitespace
RECURSIVE CR_skip_whitespace(_)
CR_skip_whitespace(r) ==
    IF r.st = "ok" /\ r.c.last_token = Whitespace
    THEN CR_skip_whitespace(CR_advance_internal(r.c))
    ELSE r

\* an advance that reads one character, whitespace or not
AdvanceOneChar(c) == CR_advance_internal(c)

\* CharReader::advance
CR_advance(c) ==
    IF c.last_token = Whitespace
    THEN CR_skip_whitespace(CR_advance_internal(c))
    ELSE CR_advance_internal(c)

\* CharReader::from_io
CR_from_io(data, cuts) ==
    LET chunk == SourceRead(data, cuts, 0, CR_READ_SIZE)
    IN  CR_advance([data |-> data, cuts |-> cuts, off |-> Len(chunk),
                    last_read |-> chunk, last_token |-> Whitespace,
                    position |-> 0, is_quoted |-> FALSE, open_eof |-> FALSE])

(***************************************************************************)
(* KeyValues (src/src/kv/reader.rs)                                         *)
(*                                                                         *)
(* An Object is a function from its keys to <<flag, value>>; a value is     *)
(* [kind |-> "String", text] or [kind |-> "Object", obj]; a flag is         *)
(* [kind |-> "None" | "Normal" | "Negated", name].                          *)
(***************************************************************************)
\* KeyValues::is_unquoted_text_char
is_unquoted_text_char(r) ==
    CASE r.tag = "Normal" ->
            IF r.ch \in {OPEN_BLOCK, CLOSE_BLOCK, OPEN_FLAG, QUOTE} THEN FALSE
            ELSE ~is_whitespace(r.ch)
      [] r.tag = "Escaped" -> TRUE
      [] OTHER -> FALSE

\* The ? operator: an Err (or a panic) of r is returned at once, otherwise
\* the function goes on with r
AndThen(r, F(_)) == IF r.st # "ok" THEN r ELSE F(r)

\* KeyValues::advance_whitespace
KV_advance_whitespace(c) ==
    AndThen(CR_advance(c), LAMBDA r :
        IF r.c.last_token = Whitespace THEN CR_advance(r.c) ELSE r)

\* KeyValues::visit_open
KV_visit_open(c, dbg) ==
    IF dbg /\ c.last_token # Normal(OPEN_BLOCK) THEN Panic(c)
    ELSE KV_advance_whitespace(c)

\* KeyValues::visit_close
KV_visit_close(c, dbg) ==
    IF dbg /\ c.last_token # Normal(CLOSE_BLOCK) THEN Panic(c)
    ELSE KV_advance_whitespace(c)

\* KeyValues::visit_text_quoted: the loop up to the closing quote
RECURSIVE KV_quoted_loop(_, _)
KV_quoted_loop(c, read_string) ==
    IF c.last_token = Normal(QUOTE) THEN Ok(c, read_string)
    ELSE IF c.last_token = Eof THEN Err(c, "UnexpectedEof")
    ELSE IF ~is_char(c.last_token) THEN Panic(c)
    ELSE AndThen(CR_advance(c), LAMBDA r :
             KV_quoted_loop(r.c, Append(read_string, c.last_token.ch)))

\* KeyValues::visit_text_quoted
KV_visit_text_quoted(c, dbg) ==
    IF dbg /\ c.last_token # Normal(QUOTE) THEN Panic(c)
    ELSE AndThen(CR_advance(c), LAMBDA a :
         AndThen(KV_quoted_loop(a.c, <<>>), LAMBDA l :
         AndThen(KV_advance_whitespace(l.c), LAMBDA w :
             Ok(w.c, l.v))))

\* KeyValues::visit_text_unquoted: the loop over the text characters
RECURSIVE KV_unquoted_loop(_, _)
KV_unquoted_loop(c, read_string) ==
    IF ~is_unquoted_text_char(c.last_token) THEN Ok(c, read_string)
    ELSE AndThen(CR_advance(c), LAMBDA r :
             KV_unquoted_loop(r.c, Append(read_string, c.last_token.ch)))

\* KeyValues::visit_text_unquoted
KV_visit_text_unquoted(c, dbg) ==
    IF dbg /\ ~is_unquoted_text_char(c.last_token) THEN Panic(c)
    ELSE AndThen(KV_unquoted_loop(c, <<>>), LAMBDA l :
             IF l.c.last_token = Whitespace
             THEN AndThen(CR_advance(l.c), LAMBDA w : Ok(w.c, l.v))
             ELSE l)

\* KeyValues::visit_text
KV_visit_text(c, dbg) ==
    IF ~is_char(c.last_token) THEN Panic(c)
    ELSE IF c.last_token.ch = QUOTE THEN KV_visit_text_quoted(c, dbg)
    ELSE KV_visit_text_unquoted(c, dbg)

NoFlag == [kind |-> "None", name |-> <<>>]

\* KeyValues::visit_flag: the loop up to the closing ]
RECURSIVE KV_flag_loop(_, _)
KV_flag_loop(c, read_string) ==
    IF c.last_token = Normal(CLOSE_FLAG) THEN Ok(c, read_string)
    ELSE IF c.last_token = Eof THEN Err(c, "UnexpectedEof")
    ELSE IF ~is_char(c.last_token) THEN Panic(c)
    ELSE AndThen(CR_advance(c), LAMBDA r :
             KV_flag_loop(r.c, Append(read_string, c.last_token.ch)))

\* the debug_assert of visit_flag on a token that opens no flag
KV_flag_assert(first_read) ==
    \/ first_read = Eof
    \/ /\ is_char(first_read)
       /\ \/ first_read.ch = QUOTE
          \/ first_read.ch = CLOSE_BLOCK
          \/ is_unquoted_text_char(first_read)

\* a visit_flag that reads `[!name]` as `[name]`
NegateIgnored(o, is_negated) ==
    AndThen(o, LAMBDA n :
    AndThen(KV_flag_loop(n.c, <<>>), LAMBDA l :
    AndThen(KV_advance_whitespace(l.c), LAMBDA w :
        Ok(w.c, [kind |-> "Normal", name |-> l.v]))))

\* KeyValues::visit_flag, from the flag name on; o is the reader after `[`
\* and after `!`
KV_flag_name(o, is_negated) ==
    AndThen(o, LAMBDA n :
    AndThen(KV_flag_loop(n.c, <<>>), LAMBDA l :
    AndThen(KV_advance_whitespace(l.c), LAMBDA w :
        Ok(w.c, [kind |-> IF is_negated THEN "Negated" ELSE "Normal",
                 name |-> l.v]))))

\* KeyValues::visit_flag
KV_visit_flag(c, dbg) ==
    IF c.last_token # Normal(OPEN_FLAG)
    THEN (IF dbg /\ ~KV_flag_assert(c.last_token) THEN Panic(c) ELSE Ok(c, NoFlag))
    ELSE AndThen(KV_advance_whitespace(c), LAMBDA o :
             IF o.c.last_token = Normal(NEGATE)
             THEN KV_flag_name(KV_advance_whitespace(o.c), TRUE)
             ELSE KV_flag_name(o, FALSE))

\* a map that keeps the entry it already holds for a key
InsertFirstWins(obj, key, entry) ==
    [k \in DOMAIN obj \cup {key} |-> IF k \in DOMAIN obj THEN obj[k] ELSE entry]

\* HashMap::insert
Insert(obj, key, entry) ==
    [k \in DOMAIN obj \cup {key} |-> IF k = key THEN entry ELSE obj[k]]

\* a visit_value that leaves the } of the nested object unread
CloseBlockNotConsumed(c, dbg) == Ok(c, <<>>)

\* what visit_value does with the reader once the nested object is read:
\* visit_close
KV_close_block(c, dbg) ==
    KV_visit_close([c EXCEPT !.open_eof = @ \/ c.last_token = Eof], dbg)

\* KeyValues::visit_value (fn = "value") and KeyValues::visit_object
\* (fn = "object", new_obj the entries inserted so far), which call each other
RECURSIVE KV_visit(_, _, _, _)
KV_visit(fn, c, dbg, new_obj) ==
    IF fn = "value"
    THEN IF c.last_token = Normal(OPEN_BLOCK)
         THEN AndThen(KV_visit_open(c, dbg), LAMBDA o :
              AndThen(KV_visit("object", o.c, dbg, <<>>), LAMBDA b :
              AndThen(KV_close_block(b.c, dbg), LAMBDA x :
                  Ok(x.c, [kind |-> "Object", obj |-> b.v]))))
         ELSE IF is_unquoted_text_char(c.last_token) \/ c.last_token = Normal(QUOTE)
         THEN AndThen(KV_visit_text(c, dbg), LAMBDA t :
                  Ok(t.c, [kind |-> "String", text |-> t.v]))
         ELSE Err(c, "InvalidChar")
    ELSE IF c.last_token = Eof THEN Ok(c, new_obj)
    ELSE IF ~is_char(c.last_token) THEN Err(c, "InvalidChar")
    ELSE IF c.last_token.ch = CLOSE_BLOCK THEN Ok(c, new_obj)
    ELSE IF c.last_token.ch # QUOTE /\ ~is_unquoted_text_char(c.last_token)
    THEN Err(c, "InvalidChar")
    ELSE AndThen(KV_visit_text(c, dbg), LAMBDA key :
         AndThen(KV_visit("value", key.c, dbg, <<>>), LAMBDA value :
         AndThen(KV_visit_flag(value.c, dbg), LAMBDA flag :
             KV_visit("object", flag.c, dbg,
                      Insert(new_obj, key.v, <<flag.v, value.v>>)))))

\* KeyValues::visit_value
KV_visit_value(c, dbg) == KV_visit("value", c, dbg, <<>>)

\* KeyValues::visit_object
KV_visit_object(c, dbg) == KV_visit("object", c, dbg, <<>>)

\* KeyValues::from_io
KeyValues_from_io(data, cuts, dbg) ==
    AndThen(CR_from_io(data, cuts), LAMBDA char_reader :
        KV_visit_object(char_reader.c, dbg))

\* kvres before from_io is called
NotParsed == [st |-> "none", e |-> "", c |-> <<>>, v |-> <<>>]

\* The inputs: every text of up to MaxKVLen characters, alone, after one
\* complete entry, inside an open block, inside an open flag section, inside
\* an open quoted value, after a backslash at the start of a key or of a
\* value, or after an entry and a second occurrence of its key; the source is
\* a byte slice.
KVPrefixes ==
    {<<>>, <<"a", SPACE, "a">>, <<"a", OPEN_BLOCK>>, <<"a", SPACE, "a", OPEN_FLAG>>,
     <<"a", SPACE, QUOTE>>, <<ESCAPE>>, <<"a", SPACE, ESCAPE>>,
     <<"a", SPACE, "a", SPACE, "a", SPACE>>}
KVInputs == {p \o t : p \in KVPrefixes, t \in Texts(MaxKVLen)}

InitKV ==
    /\ debug \in BOOLEAN
    /\ \E data \in KVInputs : kvin = [data |-> data, cuts |-> {}]
    /\ kvres = NotParsed
    /\ meta = Idle /\ disk = Idle /\ file = Idle /\ out = Idle
    /\ tr = Idle /\ tpc = Idle
    /\ vpkin = Idle /\ vpkres = Idle /\ kvget = Idle /\ cr = Idle /\ tk = Idle /\ tkout = Idle

FromIo ==
    /\ kvres.st = "none"
    /\ kvres' = KeyValues_from_io(kvin.data, kvin.cuts, debug)
    /\ UNCHANGED <<debug, meta, disk, file, out, tr, tpc, kvin, vpkin, vpkres, kvget, tk, tkout, cr>>

NextKV == FromIo

SpecKV == InitKV /\ [][NextKV]_vars


(***************************************************************************)
(* KeyValues::from_io: claims (under SpecKV)                               *)
(***************************************************************************)

\* C6: when the input ends where the `}` of an open block is due, from_io
\* returns Err(ReaderError::UnexpectedEof): neither Ok nor a panic.
C6_EofInOpenBlockIsUnexpectedEof ==
    (kvres.st # "none" /\ kvres.c.open_eof)
        => (kvres.st = "err" /\ kvres.e = "UnexpectedEof")

\* C7: from_io never panics, whatever the input and the build profile.
C7_FromIoNeverPanics == kvres.st # "panic"

\* C8: from_io returns Ok only with the reader at end-of-input; a `}` at top
\* level does not end the parse with Ok.
C8_OkOnlyAtEndOfInput == kvres.st = "ok" => kvres.c.last_token = Eof


\* the object with the single entry key -> String(text), no flag
OneString(key, text) == key :> <<NoFlag, [kind |-> "String", text |-> text]>>

\* C16: inside a quoted text a backslash is kept literally and does not
\* escape the character after it: the value of `a "\x"` is the two
\* characters `\x` for every x but the quote, and `a "\""` is not the
\* value `"` (the `\"` ends the quoted text); in unquoted text the
\* backslash escapes the next character: the value of `a \x` is x.
C16_NoEscapeInsideQuotes ==
    /\ \A x \in Alphabet \ {QUOTE} :
          (kvres.st # "none" /\ kvin.data = <<"a", SPACE, QUOTE, ESCAPE, x, QUOTE>>)
          => (kvres.st = "ok" /\ kvres.v = OneString(<<"a">>, <<ESCAPE, x>>))
    /\ (kvres.st # "none" /\ kvin.data = <<"a", SPACE, QUOTE, ESCAPE, QUOTE, QUOTE>>)
          => kvres.st # "ok"
    /\ \A x \in {"a", OPEN_BLOCK, CLOSE_FLAG} :
          (kvres.st # "none" /\ kvin.data = <<"a", SPACE, ESCAPE, x>>)
          => (kvres.st = "ok" /\ kvres.v = OneString(<<"a">>, <<x>>))

\* the structural characters a backslash makes ordinary
Escapable == {OPEN_BLOCK, CLOSE_BLOCK, OPEN_FLAG, QUOTE}

\* C17: an escaped structural character at the start of a key or of a value
\* starts an unquoted text that holds the character without the backslash:
\* `\x a` is the entry x -> a and `a \x` is the entry a -> x, for x one of
\* `{`, `}`, `[` and `"`.
C17_EscapedCharIsOrdinaryText ==
    \A x \in Escapable :
        /\ (kvres.st # "none" /\ kvin.data = <<ESCAPE, x, SPACE, "a">>)
            => (kvres.st = "ok" /\ kvres.v = OneString(<<x>>, <<"a">>))
        /\ (kvres.st # "none" /\ kvin.data = <<"a", SPACE, ESCAPE, x>>)
            => (kvres.st = "ok" /\ kvres.v = OneString(<<"a">>, <<x>>))

\* an entry for the key a, then the key a again
DupPrefix == <<"a", SPACE, "a", SPACE, "a", SPACE>>
HasPrefix(str, prefix) ==
    Len(str) >= Len(prefix) /\ SubSeq(str, 1, Len(prefix)) = prefix

\* C18: a second occurrence of a key replaces the entry of the first,
\* silently: whenever `a ` followed by a text t parses, `a a a ` followed by
\* t parses to the same object, in which a has the value and flag read from
\* t and nothing is left of the first entry.
C18_DuplicateKeyLastWins ==
    (kvres.st # "none" /\ HasPrefix(kvin.data, DupPrefix))
    => LET last == KeyValues_from_io(
                       <<"a", SPACE>> \o SubSeq(kvin.data, Len(DupPrefix) + 1,
                                                Len(kvin.data)),
                       kvin.cuts, debug)
       IN  last.st = "ok" => (kvres.st = "ok" /\ kvres.v = last.v)

\* `a a a ![]`: the entry of a holds the value `!` and the flag ``
C18_Witness ==
    /\ kvres.st = "ok"
    /\ kvin.data = DupPrefix \o <<NEGATE, OPEN_FLAG, CLOSE_FLAG>>
    /\ kvres.v = (<<"a">> :> <<[kind |-> "Normal", name |-> <<>>],
                              [kind |-> "String", text |-> <<NEGATE>>]>>)

(***************************************************************************)
(* Lookups: Object::get and Object::get_with_flags (src/src/kv/reader.rs)   *)
(*                                                                         *)
(* An Option<&Value> is the set of the values it holds: {} is None and {v} *)
(* is Some(v). kvget records the last lookup: the method, the key, the set *)
(* of active flag names and what the method returned.                      *)
(***************************************************************************)
Some(v) == {v}
Nothing == {}

\* Object::get
Object_get(obj, k) ==
    IF k \notin DOMAIN obj THEN Nothing ELSE Some(obj[k][2])

\* a lookup that reads a negated flag as a plain one
GetWithFlagsNegatedAsNormal(obj, k, flags) ==
    IF k \notin DOMAIN obj THEN Nothing
    ELSE IF obj[k][1].kind = "None" THEN Some(obj[k][2])
    ELSE IF obj[k][1].name \in flags THEN Some(obj[k][2]) ELSE Nothing

\* Object::get_with_flags
Object_get_with_flags(obj, k, flags) ==
    IF k \notin DOMAIN obj THEN Nothing
    ELSE CASE obj[k][1].kind = "None" -> Some(obj[k][2])
           [] obj[k][1].kind = "Normal" ->
                  IF obj[k][1].name \in flags THEN Some(obj[k][2]) ELSE Nothing
           [] obj[k][1].kind = "Negated" ->
                  IF obj[k][1].name \notin flags THEN Some(obj[k][2]) ELSE Nothing

\* KeyValues::get and KeyValues::get_with_flags: the lookup in the root
KeyValues_get(kv, k) == Object_get(kv.v, k)
KeyValues_get_with_flags(kv, k, flags) == Object_get_with_flags(kv.v, k, flags)

\* The documents looked into: the entry `a a` and the entry `! {a a}`, each
\* with no flag section, a flag, a negated flag, or one of the two with the
\* empty name.
FlagTexts ==
    {<<>>, <<OPEN_FLAG, "a", CLOSE_FLAG>>, <<OPEN_FLAG, NEGATE, "a", CLOSE_FLAG>>,
     <<OPEN_FLAG, CLOSE_FLAG>>, <<OPEN_FLAG, NEGATE, CLOSE_FLAG>>}
GetInputs ==
    {<<"a", SPACE, "a">> \o f
        \o <<NEWLINE, NEGATE, SPACE, OPEN_BLOCK, "a", SPACE, "a", CLOSE_BLOCK>> \o g :
     f \in FlagTexts, g \in FlagTexts}

\* the keys asked for (the last is in no document) and the flag names that
\* can be active
GetKeys == {<<"a">>, <<NEGATE>>, <<"a", "a">>}
FlagNames == {<<"a">>, <<>>}

NoGet == [op |-> "none", key |-> <<>>, flags |-> {}, ret |-> Nothing]

\* the KeyValues is the one from_io returned for the document
InitGet ==
    /\ debug \in BOOLEAN
    /\ \E data \in GetInputs :
           /\ kvin = [data |-> data, cuts |-> {}]
           /\ kvres = KeyValues_from_io(data, {}, debug)
    /\ kvres.st = "ok"
    /\ kvget = NoGet /\ cr = Idle
    /\ tk = Idle /\ tkout = Idle
    /\ meta = Idle /\ disk = Idle /\ file = Idle /\ out = Idle
    /\ tr = Idle /\ tpc = Idle
    /\ vpkin = Idle /\ vpkres = Idle

Get ==
    /\ \E k \in GetKeys :
           kvget' = [op |-> "get", key |-> k, flags |-> {},
                     ret |-> KeyValues_get(kvres, k)]
    /\ UNCHANGED <<debug, meta, disk, file, out, tr, tpc, kvin, kvres, vpkin, vpkres, tk, tkout, cr>>

GetWithFlags ==
    /\ \E k \in GetKeys, flags \in SUBSET FlagNames :
           kvget' = [op |-> "get_with_flags", key |-> k, flags |-> flags,
                     ret |-> KeyValues_get_with_flags(kvres, k, flags)]
    /\ UNCHANGED <<debug, meta, disk, file, out, tr, tpc, kvin, kvres, vpkin, vpkres, tk, tkout, cr>>

NextGet == Get \/ GetWithFlags

SpecGet == InitGet /\ [][NextGet]_vars

(***************************************************************************)
(* Claims about the lookups                                                *)
(***************************************************************************)
\* the entry of the key of the last lookup
Looked == kvres.v[kvget.key]

\* C19: for a key the object holds, get_with_flags returns the value when
\* the flag of the entry is None, when it is Normal(name) and name is active,
\* or when it is Negated(name) and name is not active, and None otherwise;
\* get returns the value whatever the flag is.
C19_FlagsFilterLookup ==
    (kvget.op # "none" /\ kvget.key \in DOMAIN kvres.v)
    => IF \/ kvget.op = "get"
          \/ Looked[1].kind = "None"
          \/ Looked[1].kind = "Normal" /\ Looked[1].name \in kvget.flags
          \/ Looked[1].kind = "Negated" /\ Looked[1].name \notin kvget.flags
       THEN kvget.ret = Some(Looked[2])
       ELSE kvget.ret = Nothing

\* `a a[!a]`, looked up with only the empty name active: the value a
C19_Witness ==
    /\ kvget.op = "get_with_flags"
    /\ kvget.key = <<"a">>
    /\ kvget.flags = {<<>>}
    /\ Looked[1] = [kind |-> "Negated", name |-> <<"a">>]
    /\ kvget.ret = Some([kind |-> "String", text |-> <<"a">>])

(***************************************************************************)
(* Nested objects: KeyValues::from_io on well-formed documents             *)
(*                                                                         *)
(* A document is written from the object it describes: the entry `b c`,    *)
(* then the key a with a block that holds a document, then the entry       *)
(* `d c`, each of the three present or not. The block of a is empty or     *)
(* nested up to MaxDepth deep.                                             *)
(***************************************************************************)
MaxDepth == 3

StringEntry(text) == <<NoFlag, [kind |-> "String", text |-> text]>>
ObjectEntry(obj) == <<NoFlag, [kind |-> "Object", obj |-> obj]>>

\* the objects with no nested object
FlatDocs == {<<>>, <<"b">> :> StringEntry(<<"c">>)}

\* the entries written before and after the block of a
Before == {<<>>, <<"b">> :> StringEntry(<<"c">>)}
After == {<<>>, <<"d">> :> StringEntry(<<"c">>)}

\* the objects nested at most depth deep
RECURSIVE NestDocs(_)
NestDocs(depth) ==
    IF depth = 0 THEN FlatDocs
    ELSE NestDocs(depth - 1) \cup
         {pre @@ (<<"a">> :> ObjectEntry(o)) @@ post :
              pre \in Before, o \in NestDocs(depth - 1), post \in After}

\* the tokens of the text of an object: its entries in the order b, a, d
RECURSIVE DocTokens(_)
DocTokens(obj) ==
    (IF <<"b">> \in DOMAIN obj THEN <<"b", "c">> ELSE <<>>)
    \o (IF <<"a">> \in DOMAIN obj
        THEN <<"a", OPEN_BLOCK>> \o DocTokens(obj[<<"a">>][2].obj) \o <<CLOSE_BLOCK>>
        ELSE <<>>)
    \o (IF <<"d">> \in DOMAIN obj THEN <<"d", "c">> ELSE <<>>)

\* the text of the tokens: "spaced" and "lines" put a space or a newline
\* between any two tokens, "compact" a space only between two texts
Styles == {"compact", "spaced", "lines"}
IsBrace(token) == token \in {OPEN_BLOCK, CLOSE_BLOCK}
RECURSIVE JoinTokens(_, _)
JoinTokens(tokens, style) ==
    IF Len(tokens) <= 1 THEN tokens
    ELSE <<tokens[1]>>
         \o (CASE style = "spaced" -> <<SPACE>>
               [] style = "lines" -> <<NEWLINE>>
               [] style = "compact" ->
                      IF IsBrace(tokens[1]) \/ IsBrace(tokens[2]) THEN <<>>
                      ELSE <<SPACE>>)
         \o JoinTokens(Tail(tokens), style)

WriteDoc(obj, style) == JoinTokens(DocTokens(obj), style)

\* the input is the text of a document; doc is the object it was written from
InitNest ==
    /\ debug \in BOOLEAN
    /\ \E obj \in NestDocs(MaxDepth), style \in Styles :
           kvin = [data |-> WriteDoc(obj, style), cuts |-> {}, doc |-> obj]
    /\ kvres = NotParsed
    /\ meta = Idle /\ disk = Idle /\ file = Idle /\ out = Idle
    /\ tr = Idle /\ tpc = Idle
    /\ vpkin = Idle /\ vpkres = Idle /\ kvget = Idle /\ cr = Idle /\ tk = Idle /\ tkout = Idle

NextNest == FromIo

SpecNest == InitNest /\ [][NextNest]_vars

(***************************************************************************)
(* Claims about nested objects                                             *)
(***************************************************************************)
\* C20: from_io on a well-formed document returns the object the document
\* was written from: the entries between a { and its matching } are the
\* entries of the Object stored under the key before the {, at every depth,
\* and the entries after the } are entries of the enclosing object.
C20_BlocksBecomeNestedObjects ==
    kvres.st # "none" => (kvres.st = "ok" /\ kvres.v = kvin.doc)

\* `b c a{a{b c}d c}d c`: two blocks deep, with an entry after each }
C20_Witness ==
    /\ kvres.st = "ok"
    /\ kvin.data = <<"b", SPACE, "c", SPACE, "a", OPEN_BLOCK, "a", OPEN_BLOCK,
                     "b", SPACE, "c", CLOSE_BLOCK, "d", SPACE, "c", CLOSE_BLOCK,
                     "d", SPACE, "c">>
    /\ kvres.v[<<"a">>][2].obj[<<"a">>][2].obj = (<<"b">> :> StringEntry(<<"c">>))
    /\ kvres.v[<<"a">>][2].obj[<<"d">>] = StringEntry(<<"c">>)
    /\ kvres.v[<<"d">>] = StringEntry(<<"c">>)

(***************************************************************************)
(* Comments: KeyValues::from_io on a text with and without a line comment  *)
(*                                                                         *)
(* A text is up to MaxLines lines, each ended by a newline. The comment is *)
(* added as a line of its own before line k + 1 (after the last line when  *)
(* k is the number of lines), or at the end of line k.                     *)
(***************************************************************************)
MaxLines == 2

\* the lines: entries with unquoted, quoted and flagged values (the quoted
\* one holds `//`), the opening and the closing line of a block
ComLines ==
    {<<"a", SPACE, "a">>, <<"b", SPACE, QUOTE, COMMENT, COMMENT, QUOTE>>,
     <<"c", OPEN_BLOCK>>, <<CLOSE_BLOCK>>,
     <<"d", SPACE, "a", SPACE, OPEN_FLAG, "a", CLOSE_FLAG>>}

\* the comments: `//` and what follows it up to the end of the line
ComBodies ==
    {<<COMMENT, COMMENT>> \o t :
        t \in {<<>>, <<"a">>, <<SPACE, "a", SPACE, "a">>, <<OPEN_BLOCK>>,
               <<CLOSE_BLOCK>>, <<QUOTE>>, <<ESCAPE>>, <<COMMENT>>, <<OPEN_FLAG>>}}

ComTexts == UNION {[1..n -> ComLines] : n \in 0..MaxLines}

\* lines from.."to" of a text, each with its newline
RECURSIVE JoinLines(_, _, _)
JoinLines(lines, from, to) ==
    IF from > to THEN <<>>
    ELSE lines[from] \o <<NEWLINE>> \o JoinLines(lines, from + 1, to)

\* the text with the comment as a line of its own after line k
WithCommentLine(lines, k, body) ==
    JoinLines(lines, 1, k) \o body \o <<NEWLINE>> \o JoinLines(lines, k + 1, Len(lines))

\* the text with the comment at the end of line k
WithTrailingComment(lines, k, body) ==
    JoinLines(lines, 1, k - 1) \o lines[k] \o body \o <<NEWLINE>>
        \o JoinLines(lines, k + 1, Len(lines))

\* the input is the text with the comment; base is the same text without it
InitCom ==
    /\ debug \in BOOLEAN
    /\ \E lines \in ComTexts, body \in ComBodies :
           \/ \E k \in 0..Len(lines) :
                  kvin = [data |-> WithCommentLine(lines, k, body), cuts |-> {},
                          base |-> JoinLines(lines, 1, Len(lines)), trailing |-> FALSE]
           \/ \E k \in 1..Len(lines) :
                  kvin = [data |-> WithTrailingComment(lines, k, body), cuts |-> {},
                          base |-> JoinLines(lines, 1, Len(lines)), trailing |-> TRUE]
    /\ kvres = NotParsed
    /\ meta = Idle /\ disk = Idle /\ file = Idle /\ out = Idle
    /\ tr = Idle /\ tpc = Idle
    /\ vpkin = Idle /\ vpkres = Idle /\ kvget = Idle /\ cr = Idle /\ tk = Idle /\ tkout = Idle

NextCom == FromIo

SpecCom == InitCom /\ [][NextCom]_vars

(***************************************************************************)
(* Claims about comments                                                   *)
(***************************************************************************)
\* what from_io returns for the text without the comment
BaseResult == KeyValues_from_io(kvin.base, kvin.cuts, debug)

\* C21: a line comment outside quoted text reads as whitespace: from_io
\* returns for a text with a comment line added before, between or after
\* its lines (or a comment added at the end of a line) what it returns for
\* the text without the comment, the same tree or the same error.
C21_CommentIsWhitespace ==
    kvres.st # "none"
    => /\ kvres.st = BaseResult.st
       /\ kvres.e = BaseResult.e
       /\ kvres.v = BaseResult.v

\* `a a`, the comment line `//"`, then `b "//"`: both entries are read
C21_Witness ==
    /\ kvres.st = "ok"
    /\ kvin.data = <<"a", SPACE, "a", NEWLINE, COMMENT, COMMENT, QUOTE, NEWLINE,
                     "b", SPACE, QUOTE, COMMENT, COMMENT, QUOTE, NEWLINE>>
    /\ kvres.v = (<<"a">> :> StringEntry(<<"a">>)) @@
                 (<<"b">> :> StringEntry(<<COMMENT, COMMENT>>))

(***************************************************************************)
(* VPK::load (src/src/vpk/reader.rs)                                        *)
(*                                                                         *)
(* The directory file is its header and the bytes that follow it. Names    *)
(* and paths are byte strings; a PathBuf is the byte string of the path.   *)
(* The index maps a PathBuf to its VPKFile.                                *)
(***************************************************************************)
MaxNames == 2
MaxTreePreload == 1

VPK_SIGNATURE == 1437209140
DIRECTORY_INDEX == 32767
\* mem::size_of of the three packed structs
HEADER_V1_SIZE == 12
HEADER_V2_SIZE == 28
ENTRY_SIZE == 18

\* the bytes of the characters names are made of
Code ==
    ("a" :> 97) @@ ("e" :> 101) @@ ("p" :> 112) @@ ("x" :> 120) @@ ("y" :> 121)
        @@ ("." :> 46) @@ ("/" :> 47) @@ (" " :> 32)
Byte(ch) == Code[ch]
Bytes(str) == [i \in 1..Len(str) |-> Code[str[i]]]
\* a byte that is no UTF-8 text
NonUtf8 == 255

\* little-endian fields of the packed structs
U16(v) == <<v % 256, v \div 256>>
U32(v) == <<v % 256, (v \div 256) % 256, (v \div 65536) % 256, v \div 16777216>>
LE16(data, at) == data[at + 1] + 256 * data[at + 2]
LE32(data, at) ==
    data[at + 1] + 256 * data[at + 2] + 65536 * data[at + 3] + 16777216 * data[at + 4]

\* VPKDirectoryEntry::read_from_prefix on data[at..] (at least ENTRY_SIZE bytes)
DirectoryEntry(data, at) ==
    [crc |-> LE32(data, at),
     preload_bytes |-> LE16(data, at + 4),
     archive_index |-> LE16(data, at + 6),
     entry_offset |-> LE32(data, at + 8),
     entry_length |-> LE32(data, at + 12),
     terminator |-> LE16(data, at + 16)]

\* the results of VPK::load: st is ok, err or panic; files is the index and
\* triples the (extension, path, file name) triples inserted into it
LoadOk(idx) == [st |-> "ok", files |-> idx.files, triples |-> idx.triples]
LoadErr == [st |-> "err", files |-> <<>>, triples |-> {}]
LoadPanic == [st |-> "panic", files |-> <<>>, triples |-> {}]

\* VPK::read_string on data[position..]: [st, num_read, str]
read_string(data, position) ==
    LET zeros == {i \in (position + 1)..Len(data) : data[i] = 0}
    IN  IF zeros = {} THEN [st |-> "panic", num_read |-> 0, str |-> <<>>]
        ELSE IF \E i \in (position + 1)..(SetMin(zeros) - 1) : data[i] >= 128
        THEN [st |-> "err", num_read |-> 0, str |-> <<>>]
        ELSE [st |-> "ok", num_read |-> SetMin(zeros) - position,
              str |-> SubSeq(data, position + 1, SetMin(zeros) - 1)]

\* PathBuf::push (Unix)
PathBuf_push(buf, name) ==
    IF name # <<>> /\ name[1] = Byte("/") THEN name
    ELSE IF buf = <<>> THEN name
    ELSE IF buf[Len(buf)] = Byte("/") THEN buf \o name
    ELSE buf \o <<Byte("/")>> \o name

\* the paths here hold no `.` or `..` component: a path without its
\* trailing separators
StripSeparators(buf) ==
    SubSeq(buf, 1, Max(0, SetMin({Len(buf)} \cup
        {i \in 0..Len(buf) : \A j \in (i + 1)..Len(buf) : buf[j] = Byte("/")})))

\* where the file name (the last component) of a stripped path starts
FileNameStart(buf) ==
    Max(0, SetMin({Len(buf)} \cup
        {i \in 0..Len(buf) : \A j \in (i + 1)..Len(buf) : buf[j] # Byte("/")}))

\* Path::file_stem: the length of the stem of a file name
FileStemLen(name) ==
    LET dots == {i \in 2..Len(name) : name[i] = Byte(".")}
    IN  IF dots = {} THEN Len(name)
        ELSE (CHOOSE i \in dots : \A j \in dots : j <= i) - 1

\* PathBuf::set_extension
PathBuf_set_extension(buf, extension) ==
    LET stripped == StripSeparators(buf)
        start == FileNameStart(stripped)
        name == SubSeq(stripped, start + 1, Len(stripped))
        stem == SubSeq(stripped, 1, start + FileStemLen(name))
    IN  IF name = <<>> THEN buf
        ELSE IF extension = <<>> THEN stem
        ELSE stem \o <<Byte(".")>> \o extension

\* HashMap::insert of the VPKFile of one tree entry
InsertFile(idx, extension, path, file_name, vpkfile) ==
    LET full_path ==
            PathBuf_set_extension(PathBuf_push(path, file_name), extension)
    IN  [files |-> [k \in DOMAIN idx.files \cup {full_path} |->
                       IF k = full_path THEN vpkfile ELSE idx.files[k]],
         triples |-> idx.triples \cup {<<extension, path, file_name>>}]

\* a single space stands for the empty string
Unspace(str) == IF str = <<Byte(" ")>> THEN <<>> ELSE str

\* A number wider than 31 bits is the tuple of its bytes, little-endian as
\* in the file. Wide zero-extends (or cuts) it to n bytes, as a cast does.
Wide(v, n) == [i \in 1..n |-> IF i <= Len(v) THEN v[i] ELSE 0]

\* the carry into byte i of the sum of a and b
RECURSIVE Carry(_, _, _)
Carry(a, b, i) ==
    IF i = 1 THEN 0 ELSE (a[i - 1] + b[i - 1] + Carry(a, b, i - 1)) \div 256

\* the sum of a and b in n bytes (wrapping, as a release build adds)
AddBytes(a, b, n) ==
    [i \in 1..n |-> (Wide(a, n)[i] + Wide(b, n)[i]
                        + Carry(Wide(a, n), Wide(b, n), i)) % 256]

\* the number a byte tuple stands for (it must fit in 31 bits)
RECURSIVE LEValue(_)
LEValue(v) == IF v = <<>> THEN 0 ELSE v[1] + 256 * LEValue(Tail(v))

\* a sum computed in 32 bits
ArchiveOffset32(archive_index, entry_offset, header_offset) ==
    IF archive_index = DIRECTORY_INDEX
    THEN AddBytes(entry_offset, header_offset, 4)
    ELSE Wide(entry_offset, 4)

\* VPK::load_tree: archive_offset, a u64 sum of the u32 entry_offset and the
\* usize header_offset, each cast to u64
ArchiveOffset(archive_index, entry_offset, header_offset) ==
    IF archive_index = DIRECTORY_INDEX
    THEN AddBytes(Wide(entry_offset, 8), Wide(header_offset, 8), 8)
    ELSE Wide(entry_offset, 8)

\* VPK::load_v1 and VPK::load_v2: the header_offset handed to load_tree, the
\* usize sum of the header's size and the u32 tree_size (usize is 64 bits
\* wide)
HeaderOffset(version, tree_size) ==
    AddBytes(U32(IF version = 2 THEN HEADER_V2_SIZE ELSE HEADER_V1_SIZE),
             Wide(tree_size, 8), 8)

\* VPK::load_tree: the while loop over the extensions (level "extension"), the
\* loop over the paths of one extension and the loop over the file names of
\* one path
RECURSIVE load_tree_loop(_, _, _, _, _, _, _)
load_tree_loop(level, data, header_offset, position, extension, path, idx) ==
    IF level = "extension" /\ position >= Len(data) THEN LoadOk(idx)
    ELSE
        LET r == read_string(data, position)
            next == position + r.num_read
        IN  IF r.st = "panic" THEN LoadPanic
            ELSE IF r.st = "err" THEN LoadErr
            ELSE IF r.str = <<>>
            THEN (CASE level = "extension" -> LoadOk(idx)
                    [] level = "path" ->
                        load_tree_loop("extension", data, header_offset, next,
                                       <<>>, <<>>, idx)
                    [] OTHER ->
                        load_tree_loop("path", data, header_offset, next,
                                       extension, <<>>, idx))
            ELSE IF level = "extension"
            THEN load_tree_loop("path", data, header_offset, next,
                                Unspace(r.str), <<>>, idx)
            ELSE IF level = "path"
            THEN load_tree_loop("file_name", data, header_offset, next,
                                extension, Unspace(r.str), idx)
            ELSE IF Len(data) - next < ENTRY_SIZE THEN LoadErr
            ELSE IF next + ENTRY_SIZE + DirectoryEntry(data, next).preload_bytes
                        > Len(data)
            THEN LoadPanic
            ELSE load_tree_loop("file_name", data, header_offset,
                     next + ENTRY_SIZE + DirectoryEntry(data, next).preload_bytes,
                     extension, path,
                     InsertFile(idx, extension, path, Unspace(r.str),
                         [crc |-> DirectoryEntry(data, next).crc,
                          preload_data |->
                              SubSeq(data, next + ENTRY_SIZE + 1,
                                     next + ENTRY_SIZE
                                       + DirectoryEntry(data, next).preload_bytes),
                          archive_index |-> DirectoryEntry(data, next).archive_index,
                          archive_offset |->
                              LEValue(ArchiveOffset(
                                  DirectoryEntry(data, next).archive_index,
                                  SubSeq(data, next + 9, next + 12),
                                  header_offset)),
                          archive_length |->
                              DirectoryEntry(data, next).entry_length]))

\* fs::File::read into vec![0u8; tree_size]: the first got bytes come from the
\* file, the others stay 0; the number read is not looked at
LoadedData(rest, tree_size, got) ==
    [i \in 1..tree_size |-> IF i <= got THEN rest[i] ELSE 0]

\* VPK::load_tree
load_tree(f, header_offset) ==
    load_tree_loop("extension", LoadedData(f.rest, f.tree_size, f.got),
                   header_offset, 0, <<>>, <<>>, [files |-> <<>>, triples |-> {}])

\* a load_internal that reads a file of any version as version 1
LoadAnyVersion(f) ==
    IF f.signature # VPK_SIGNATURE THEN LoadErr
    ELSE load_tree(f, HeaderOffset(1, U32(f.tree_size)))

\* VPK::load_internal (with load_v1 and load_v2)
load_internal(f) ==
    IF f.signature # VPK_SIGNATURE THEN LoadErr
    ELSE IF f.version = 2 THEN load_tree(f, HeaderOffset(2, U32(f.tree_size)))
    ELSE IF f.version = 1 THEN load_tree(f, HeaderOffset(1, U32(f.tree_size)))
    ELSE LoadErr

\* VPK::load
VPK_load(f) == load_internal(f)


\* The trees of well-formed directory files: one extension, one path and up
\* to MaxNames file names, each followed by its VPKDirectoryEntry; the first
\* entry has pb preload bytes and lives in the directory file itself.
TreeNames ==
    {Bytes(<<"a">>), Bytes(<<"a", ".", "x">>), Bytes(<<"a", ".", "y">>),
     Bytes(<<" ">>), <<NonUtf8>>}
NameLists == UNION {[1..n -> TreeNames] : n \in 1..MaxNames}
Trees ==
    {[extension |-> e, path |-> q, names |-> n, pb |-> b] :
        e \in {Bytes(<<"e">>), Bytes(<<" ">>)},
        q \in {Bytes(<<"p">>), Bytes(<<" ">>)},
        n \in NameLists, b \in 0..MaxTreePreload}

\* the bytes of the i-th VPKDirectoryEntry and its preload payload
EncodeEntry(i, pb) ==
    U32(i) \o U16(pb) \o U16(IF i = 1 THEN DIRECTORY_INDEX ELSE 0)
        \o U32(i) \o U32(1) \o U16(65535) \o [j \in 1..pb |-> 7]

RECURSIVE EncodeNames(_, _, _)
EncodeNames(names, i, pb) ==
    IF i > Len(names) THEN <<0>>
    ELSE names[i] \o <<0>> \o EncodeEntry(i, IF i = 1 THEN pb ELSE 0)
            \o EncodeNames(names, i + 1, pb)

\* the tree bytes: the names of each level end with an empty string
EncodeTree(t) ==
    t.extension \o <<0>> \o t.path \o <<0>> \o EncodeNames(t.names, 1, t.pb)
        \o <<0, 0>>

\* The directory files: a header (signature, version, tree_size), the bytes
\* rest that follow it, and the number got of bytes the read of the tree
\* delivers. A well-formed file under every header, and under a valid header
\* the files cut short: a tree_size that ends the tree early, and a read that
\* delivers fewer than tree_size bytes (the file ends, or the read is short).
LoadInputs ==
    {[signature |-> h[1], version |-> h[2], tree |-> t, rest |-> EncodeTree(t),
      tree_size |-> Len(EncodeTree(t)), got |-> Len(EncodeTree(t))] :
        h \in {<<VPK_SIGNATURE, 1>>, <<VPK_SIGNATURE, 2>>, <<VPK_SIGNATURE, 3>>,
               <<VPK_SIGNATURE, 0>>, <<0, 1>>, <<VPK_SIGNATURE + 1, 2>>},
        t \in Trees}
    \cup
    UNION {UNION {{[signature |-> VPK_SIGNATURE, version |-> 1, tree |-> t,
                    rest |-> EncodeTree(t), tree_size |-> n, got |-> g] :
                      g \in 0..n} :
                  n \in 0..Len(EncodeTree(t))} :
           t \in {u \in Trees : /\ u.extension = Bytes(<<"e">>)
                                /\ u.path = Bytes(<<"p">>)
                                /\ u.names = <<Bytes(<<"a">>)>>}}

\* vpkres before load is called
NotLoaded == [st |-> "none", files |-> <<>>, triples |-> {}]

InitLoad ==
    /\ debug = FALSE
    /\ vpkin \in LoadInputs
    /\ vpkres = NotLoaded
    /\ meta = Idle /\ disk = Idle /\ file = Idle /\ out = Idle
    /\ tr = Idle /\ tpc = Idle /\ kvin = Idle /\ kvres = Idle /\ kvget = Idle /\ cr = Idle /\ tk = Idle /\ tkout = Idle

Load ==
    /\ vpkres.st = "none"
    /\ vpkres' = VPK_load(vpkin)
    /\ UNCHANGED <<debug, meta, disk, file, out, tr, tpc, kvin, kvres, vpkin, kvget, tk, tkout, cr>>

NextLoad == Load

SpecLoad == InitLoad /\ [][NextLoad]_vars

(***************************************************************************)
(* VPK::load: claims (under SpecLoad)                                      *)
(***************************************************************************)
HeaderValid == vpkin.signature = VPK_SIGNATURE /\ vpkin.version \in {1, 2}
TreeLen == Len(vpkin.rest)

\* C13: when the whole tree was read from the file, load does not panic,
\* whatever the tree; a tree that ends before its last file-name loop is
\* closed (inside a name, inside a loop, inside an entry or its preload
\* bytes) yields Err.
C13_MalformedTreeIsError ==
    (vpkres.st # "none" /\ HeaderValid /\ vpkin.got = vpkin.tree_size)
    => /\ vpkres.st # "panic"
       /\ (0 < vpkin.tree_size /\ vpkin.tree_size < TreeLen - 1)
            => vpkres.st = "err"

\* C14: when the read of the tree delivers fewer than tree_size bytes, load
\* fails: it returns Err and builds no index.
C14_ShortTreeReadFails ==
    (vpkres.st # "none" /\ HeaderValid /\ vpkin.got < vpkin.tree_size)
    => vpkres.st = "err"

\* the key path/name.extension of a triple of the tree (its single-space
\* strings read as empty)
ExpectedKey(extension, path, name) ==
    Unspace(path) \o <<Byte("/")>> \o Unspace(name) \o <<Byte(".")>>
        \o Unspace(extension)

\* the (extension, path, file name) triples of the tree of the file
TreeTriples ==
    {<<vpkin.tree.extension, vpkin.tree.path, vpkin.tree.names[i]>> :
        i \in 1..Len(vpkin.tree.names)}

WellFormedRead ==
    /\ HeaderValid
    /\ vpkin.got = TreeLen /\ vpkin.tree_size = TreeLen
    /\ \A i \in 1..Len(vpkin.tree.names) : vpkin.tree.names[i] # <<NonUtf8>>

\* C15: load of a well-formed file succeeds with one index entry per triple
\* of its tree, and the triples whose three strings are not the single space
\* are found under the key path/name.extension.
C15_OneEntryPerTriple ==
    (vpkres.st # "none" /\ WellFormedRead)
    => /\ vpkres.st = "ok"
       /\ Cardinality(DOMAIN vpkres.files) = Cardinality(TreeTriples)
       /\ \A t \in TreeTriples :
            (\A i \in 1..3 : t[i] # <<Byte(" ")>>)
                => ExpectedKey(t[1], t[2], t[3]) \in DOMAIN vpkres.files


\* C23: load of a file whose signature is not the magic constant, or whose
\* version is neither 1 nor 2, returns Err and builds no index, whatever
\* follows the header.
C23_BadHeaderIsError ==
    (vpkres.st # "none" /\ ~HeaderValid)
    => (vpkres.st = "err" /\ vpkres.files = <<>>)

\* a well-formed tree behind a header with the magic signature and version 3
C23_Witness ==
    /\ vpkres.st = "err"
    /\ vpkin.signature = VPK_SIGNATURE /\ vpkin.version = 3
    /\ vpkin.got = TreeLen /\ vpkin.tree_size = TreeLen
    /\ vpkin.tree.names = <<Bytes(<<"a">>)>>

(***************************************************************************)
(* The archive offset of a tree entry (src/src/vpk/reader.rs)              *)
(*                                                                         *)
(* The values load_tree computes the offset from: the version and the      *)
(* tree_size of the header (a u32), the archive_index (a u16) and the      *)
(* entry_offset (a u32) of the VPKDirectoryEntry. vpkres is the            *)
(* archive_offset stored in the VPKFile of the entry. The u32 and u64      *)
(* values are byte tuples.                                                 *)
(***************************************************************************)
\* the values of a u32 field and of the u16 archive_index that are tried
U32Values ==
    {<<0, 0, 0, 0>>, <<1, 0, 0, 0>>, <<255, 255, 255, 127>>, <<0, 0, 0, 128>>,
     <<254, 255, 255, 255>>, <<255, 255, 255, 255>>}
IndexValues == {0, 1, DIRECTORY_INDEX - 1, DIRECTORY_INDEX, DIRECTORY_INDEX + 1, 65535}

NotStored == [st |-> "none", archive_offset |-> <<>>]

InitOffset ==
    /\ debug \in BOOLEAN
    /\ \E v \in {1, 2}, t \in U32Values, i \in IndexValues, o \in U32Values :
           vpkin = [version |-> v, tree_size |-> t, archive_index |-> i,
                    entry_offset |-> o]
    /\ vpkres = NotStored
    /\ meta = Idle /\ disk = Idle /\ file = Idle /\ out = Idle
    /\ tr = Idle /\ tpc = Idle /\ kvin = Idle /\ kvres = Idle /\ kvget = Idle /\ cr = Idle /\ tk = Idle /\ tkout = Idle

\* load_v1 / load_v2 compute header_offset, load_tree stores archive_offset
StoreOffset ==
    /\ vpkres.st = "none"
    /\ vpkres' = [st |-> "ok",
                  archive_offset |->
                      ArchiveOffset(vpkin.archive_index, vpkin.entry_offset,
                                    HeaderOffset(vpkin.version, vpkin.tree_size))]
    /\ UNCHANGED <<debug, meta, disk, file, out, tr, tpc, kvin, kvres, vpkin, kvget, tk, tkout, cr>>

NextOffset == StoreOffset

SpecOffset == InitOffset /\ [][NextOffset]_vars

\* the sum of the header size, tree_size and entry_offset in 9 bytes, which
\* hold it whole
WholeSum ==
    AddBytes(AddBytes(vpkin.entry_offset, vpkin.tree_size, 9),
             U32(IF vpkin.version = 1 THEN 12 ELSE 28), 9)

\* C25: the archive_offset stored for an entry is a u64 that equals the sum
\* entry_offset + header size + tree_size (header size 12 for version 1, 28
\* for version 2), not reduced modulo a power of two, when archive_index is
\* 0x7FFF, and entry_offset otherwise.
C25_ArchiveOffsetOfEntry ==
    vpkres.st = "ok"
    => /\ Len(vpkres.archive_offset) = 8
       /\ Wide(vpkres.archive_offset, 9) =
             IF vpkin.archive_index = 32767 THEN WholeSum
             ELSE Wide(vpkin.entry_offset, 9)

\* version 2, tree_size and entry_offset both 2^32 - 1, in the directory
\* file: the offset is 2^33 + 26
C25_Witness ==
    /\ vpkres.st = "ok"
    /\ vpkin = [version |-> 2, tree_size |-> <<255, 255, 255, 255>>,
                archive_index |-> 32767, entry_offset |-> <<255, 255, 255, 255>>]
    /\ vpkres.archive_offset = <<26, 0, 0, 0, 2, 0, 0, 0>>


(***************************************************************************)
(* VPK::get and the handles it issues (src/src/vpk/reader.rs)              *)
(*                                                                         *)
(* meta is the index VPK::load built (path -> VPKFile), disk the archive   *)
(* files that exist (name -> bytes), vpkin the path the VPK was loaded     *)
(* from and file the sequence of the handles issued so far. A handle is a  *)
(* File with the key of its entry and the name of the archive it opened.   *)
(* Up to MaxHandles handles are alive at once (a File borrows the VPK it   *)
(* comes from mutably, so two of them belong to two VPK values loaded from *)
(* the same directory file, whose indexes are equal).                      *)
(***************************************************************************)
MaxHandles == 2
MaxIdxBuf == 1
MaxIdxSeek == 1

\* the archive file of an entry: the directory file itself, or the sidecar
\* file <base>_NNN.<extension>
ArchiveName(archive_index) ==
    IF archive_index = DIRECTORY_INDEX THEN <<"dir", archive_index>>
    ELSE <<"archive", archive_index>>

NoHandle == [key |-> "none", open |-> FALSE, cursor |-> 0, position |-> 0,
             archive |-> <<"none", 0>>]

\* a get that answers a path it does not find with an empty handle
GetOrEmpty(idx, has_extension, fs, path) ==
    [status |-> "ok", e |-> "", opened |-> {},
     handle |-> [NoHandle EXCEPT !.key = path]]

\* a get that opens the archive and leaves its cursor at the start
GetWithoutSeek(idx, has_extension, fs, path) ==
    IF path \notin DOMAIN idx
    THEN [status |-> "err", e |-> "NotFound", opened |-> {}, handle |-> NoHandle]
    ELSE [status |-> "ok", e |-> "", opened |-> {ArchiveName(idx[path].archive_index)},
          handle |-> [key |-> path, open |-> TRUE, cursor |-> 0, position |-> 0,
                      archive |-> ArchiveName(idx[path].archive_index)]]

\* VPK::get: [status, e, opened, handle]; opened is the set of the files it
\* opened. has_extension: the path the VPK was loaded from has an extension.
VPK_get(idx, has_extension, fs, path) ==
    IF path \notin DOMAIN idx
    THEN [status |-> "err", e |-> "NotFound", opened |-> {}, handle |-> NoHandle]
    ELSE IF idx[path].archive_length = 0
    THEN [status |-> "ok", e |-> "", opened |-> {},
          handle |-> [NoHandle EXCEPT !.key = path]]
    ELSE IF idx[path].archive_index # DIRECTORY_INDEX /\ ~has_extension
    THEN [status |-> "panic", e |-> "", opened |-> {}, handle |-> NoHandle]
    ELSE IF ArchiveName(idx[path].archive_index) \notin DOMAIN fs
    THEN [status |-> "err", e |-> "Io", opened |-> {}, handle |-> NoHandle]
    ELSE [status |-> "ok", e |-> "",
          opened |-> {ArchiveName(idx[path].archive_index)},
          handle |-> [key |-> path, open |-> TRUE,
                      cursor |-> idx[path].archive_offset, position |-> 0,
                      archive |-> ArchiveName(idx[path].archive_index)]]

\* an operation on a handle that writes its outcome to every handle
SetEveryHandle(handles, i, h) == [j \in DOMAIN handles |-> h]

\* a method of File takes &mut self: it assigns to the fields of its own
\* handle
SetHandle(handles, i, h) == [handles EXCEPT ![i] = h]

\* The index: `a` is held in preload bytes alone, `b` has one preload byte
\* and two bytes in the sidecar archive 0, `c` has one byte in the directory
\* file; every stored checksum is that of the content.
IdxDisk(with_sidecar) ==
    [n \in {ArchiveName(DIRECTORY_INDEX)} \cup (IF with_sidecar THEN {ArchiveName(0)} ELSE {}) |->
        [i \in 1..4 |-> DiskByte(i - 1)]]
IdxEntry(p, index, o, a) ==
    [crc |-> Crc32(PreloadBytes(p) \o [i \in 1..a |-> DiskByte(o + i - 1)]),
     preload_data |-> PreloadBytes(p), archive_index |-> index,
     archive_offset |-> o, archive_length |-> a]
Index ==
    ("a" :> IdxEntry(1, DIRECTORY_INDEX, 0, 0)) @@ ("b" :> IdxEntry(1, 0, 1, 2))
        @@ ("c" :> IdxEntry(0, DIRECTORY_INDEX, 2, 1))

\* the paths asked for: the three of the index and one that is not in it
IdxPaths == {"a", "b", "c", "z"}

\* the archive bytes behind a handle
HandleDisk(h) == IF h.open THEN disk[h.archive] ELSE <<>>

NoIdxOut == [op |-> "load", status |-> "ok", e |-> "", h |-> 0, path |-> "none",
             opened |-> {}]

InitIdx ==
    /\ debug \in BOOLEAN
    /\ meta = Index
    /\ \E s \in BOOLEAN : disk = IdxDisk(s)
    /\ \E x \in BOOLEAN : vpkin = [has_extension |-> x]
    /\ file = <<>>
    /\ out = NoIdxOut
    /\ vpkres = Idle
    /\ tr = Idle /\ tpc = Idle /\ kvin = Idle /\ kvres = Idle /\ kvget = Idle /\ cr = Idle /\ tk = Idle /\ tkout = Idle

IdxFrame == UNCHANGED <<debug, meta, disk, tr, tpc, kvin, kvres, vpkin, vpkres, kvget, tk, tkout, cr>>

GetFile(path) ==
    /\ Alive
    /\ Len(file) < MaxHandles
    /\ LET r == VPK_get(meta, vpkin.has_extension, disk, path)
       IN  /\ file' = IF r.status = "ok" THEN Append(file, r.handle) ELSE file
           /\ out' = [op |-> "get", status |-> r.status, e |-> r.e,
                      h |-> IF r.status = "ok" THEN Len(file) + 1 ELSE 0,
                      path |-> path, opened |-> r.opened]
    /\ IdxFrame

HandleRead(i, n) ==
    /\ Alive
    /\ i \in 1..Len(file)
    /\ LET r == File_read(file[i], meta[file[i].key], HandleDisk(file[i]), debug,
                          ZeroBuf(n))
       IN  /\ file' = SetHandle(file, i, r.file)
           /\ out' = [op |-> "read", status |-> r.status, e |-> "", h |-> i,
                      path |-> file[i].key, opened |-> {}]
    /\ IdxFrame

HandleSeek(i, k) ==
    /\ Alive
    /\ i \in 1..Len(file)
    /\ LET r == File_seek(file[i], meta[file[i].key], debug,
                          [from |-> "Start", offset |-> k])
       IN  /\ file' = SetHandle(file, i, r.file)
           /\ out' = [op |-> "seek", status |-> r.status, e |-> "", h |-> i,
                      path |-> file[i].key, opened |-> {}]
    /\ IdxFrame

HandleVerify(i) ==
    /\ Alive
    /\ i \in 1..Len(file)
    /\ LET r == File_verify(file[i], meta[file[i].key], HandleDisk(file[i]), debug)
       IN  /\ file' = SetHandle(file, i, r.file)
           /\ out' = [op |-> "verify", status |-> r.status, e |-> "", h |-> i,
                      path |-> file[i].key, opened |-> {}]
    /\ IdxFrame

NextIdx ==
    \/ \E path \in IdxPaths : GetFile(path)
    \/ \E i \in 1..MaxHandles, n \in 0..MaxIdxBuf : HandleRead(i, n)
    \/ \E i \in 1..MaxHandles, k \in 0..MaxIdxSeek : HandleSeek(i, k)
    \/ \E i \in 1..MaxHandles : HandleVerify(i)

SpecIdx == InitIdx /\ [][NextIdx]_vars

(***************************************************************************)
(* Claims about VPK::get and the handles (under SpecIdx)                   *)
(***************************************************************************)
\* C24: get for a path that is not in the index returns the NotFound error:
\* it does not panic, opens no file and issues no handle.
C24_AbsentPathIsNotFound ==
    (out.op = "get" /\ out.path \notin DOMAIN meta)
    => /\ out.status = "err" /\ out.e = "NotFound"
       /\ out.opened = {}
       /\ out.h = 0

\* `z` is asked for while a handle on `b` is alive
C24_Witness ==
    /\ out.op = "get" /\ out.path = "z" /\ out.status = "err"
    /\ Len(file) = 1 /\ file[1].key = "b"

\* C26: get on an entry whose archive length is zero returns a handle with
\* no backing file and opens no file; on any other entry, when its archive
\* file exists (and, for a sidecar archive, the directory path has an
\* extension to name it with), it returns a handle whose backing file is
\* that archive, opened by this call, with its cursor at archive_offset. In
\* both cases the handle is at logical position 0.
C26_GetOpensBackingFile ==
    (out.op = "get" /\ out.path \in DOMAIN meta)
    => IF meta[out.path].archive_length = 0
       THEN /\ out.status = "ok" /\ out.opened = {}
            /\ ~file[out.h].open /\ file[out.h].position = 0
       ELSE /\ (/\ ArchiveName(meta[out.path].archive_index) \in DOMAIN disk
                /\ (vpkin.has_extension
                      \/ meta[out.path].archive_index = DIRECTORY_INDEX))
               => out.status = "ok"
            /\ out.status = "ok"
               => /\ out.opened = {ArchiveName(meta[out.path].archive_index)}
                  /\ file[out.h].open
                  /\ file[out.h].archive = ArchiveName(meta[out.path].archive_index)
                  /\ file[out.h].cursor = meta[out.path].archive_offset
                  /\ file[out.h].position = 0

\* get on `b`, two bytes at offset 1 of the sidecar archive 0, after a get on
\* `a`, which lives in preload bytes alone
C26_Witness ==
    /\ out.op = "get" /\ out.path = "b" /\ out.status = "ok" /\ out.h = 2
    /\ file[1].key = "a" /\ ~file[1].open
    /\ file[2].open /\ file[2].cursor = 1 /\ file[2].position = 0

\* C27: no step changes the index, a handle once issued stays on its entry
\* and its archive, and a read, seek or verify on one handle (and a get)
\* leaves every other handle as it was.
C27_IndexAndOtherHandlesUnchanged ==
    [][/\ meta' = meta
       /\ Len(file') >= Len(file)
       /\ \A j \in 1..Len(file) :
            /\ file'[j].key = file[j].key
            /\ file'[j].archive = file[j].archive
            /\ file'[j].open = file[j].open
            /\ (out'.op = "get" \/ j # out'.h) => file'[j] = file[j]]_vars

\* two handles on `b`: the first was moved to position 1, the second is
\* where get left it
C27_Witness ==
    /\ Len(file) = 2 /\ file[1].key = "b" /\ file[2].key = "b"
    /\ out.op = "seek" /\ out.h = 1
    /\ file[1].position = 1 /\ file[1].cursor = 1
    /\ file[2].position = 0 /\ file[2].cursor = 1

(***************************************************************************)
(* Buffering: KeyValues::from_io on a source that delivers the input in     *)
(* any number of reads. A refill of the 1024-byte buffer in the middle of   *)
(* a longer input is a read that ends there, so the cuts stand for the      *)
(* refills too.                                                             *)
(***************************************************************************)
MaxChunkLen == 3

\* the newline is the whitespace character: it also ends a comment
ChunkAlphabet == {"a", NEWLINE, COMMENT, ESCAPE, QUOTE, OPEN_BLOCK}

ChunkInputs ==
    {p \o t : p \in {<<>>, <<"a", SPACE>>}, t \in TextsOver(ChunkAlphabet, MaxChunkLen)}

InitChunk ==
    /\ debug \in BOOLEAN
    /\ \E data \in ChunkInputs : \E cuts \in SUBSET (1..(Len(data) - 1)) :
        kvin = [data |-> data, cuts |-> cuts]
    /\ kvres = NotParsed
    /\ meta = Idle /\ disk = Idle /\ file = Idle /\ out = Idle
    /\ tr = Idle /\ tpc = Idle
    /\ vpkin = Idle /\ vpkres = Idle /\ kvget = Idle /\ cr = Idle /\ tk = Idle /\ tkout = Idle

NextChunk == FromIo

SpecChunk == InitChunk /\ [][NextChunk]_vars

\* what from_io returns when the source delivers the input in one read
WholeResult == KeyValues_from_io(kvin.data, {}, debug)

\* C35: what from_io returns (the tree, the error or the panic) depends on
\* the bytes of the input only: however the source splits the input into
\* reads, it is what from_io returns for the input delivered in one read.
C35_ResultIndependentOfReads ==
    kvres.st # "none"
    => /\ kvres.st = WholeResult.st
       /\ kvres.e = WholeResult.e
       /\ kvres.v = WholeResult.v

\* reached: `a \{` read in four pieces, the backslash and the { it escapes
\* in different reads
C35_Witness ==
    /\ kvres.st = "ok"
    /\ kvin.data = <<"a", SPACE, ESCAPE, OPEN_BLOCK>>
    /\ kvin.cuts = {1, 2, 3}
    /\ kvres.v = (<<"a">> :> StringEntry(<<OPEN_BLOCK>>))

(***************************************************************************)
(* Tokenizer (src/src/kv/tokenizer.rs, and its earlier revision             *)
(* src/srcrs/src/kv/tokenizer.rs)                                           *)
(*                                                                         *)
(* k.rewinds is NUM_REWINDS, the number of rewind slots in front of the     *)
(* bytes of the last read: 1 in src/src/kv/tokenizer.rs; the revision in    *)
(* src/srcrs has no rewind slot, no rewind and no comment handling, and is  *)
(* the tokenizer with k.rewinds = 0. k.last_read holds the first max_read   *)
(* bytes of the buffer. Three fields are observations, not fields of the    *)
(* struct: k.last is the last of advance and rewind that ran, k.safe is     *)
(* FALSE once a rewind ran that did not directly follow an advance or once  *)
(* the position was left outside the bytes peek may read, and k.panicked is *)
(* TRUE once the assert! of rewind failed.                                  *)
(***************************************************************************)
NUM_REWINDS == 1
TK_READ_SIZE == 1024
CANCEL == "\\"

TK_max_read(k) == Len(k.last_read)

\* Tokenizer::peek
TK_peek(k) ==
    IF TK_max_read(k) = k.rewinds THEN None
    ELSE IF k.position + 1 \in DOMAIN k.last_read THEN k.last_read[k.position + 1]
    ELSE NUL

\* whether peek reads a byte of the buffer that a read or a rewind has set
TK_in_buffer(k) ==
    \/ TK_max_read(k) = k.rewinds
    \/ /\ k.position \in 0..(TK_max_read(k) - 1)
       /\ k.position >= k.rewinds \/ k.last = "rewind"

\* an advance that starts a new buffer on the rewind slot
AdvanceOntoSlot(k) ==
    IF k.position + 1 >= TK_max_read(k)
    THEN LET chunk == SourceRead(k.data, k.cuts, k.off, TK_READ_SIZE)
             k1 == [k EXCEPT !.last_read = SubSeq(@, 1, k.rewinds) \o chunk,
                             !.off = @ + Len(chunk),
                             !.position = 0,
                             !.last = "advance"]
         IN  [k1 EXCEPT !.safe = @ /\ TK_in_buffer(k1)]
    ELSE [k EXCEPT !.position = @ + 1, !.last = "advance"]

\* Tokenizer::advance
TK_advance(k) ==
    IF k.position + 1 >= TK_max_read(k)
    THEN LET chunk == SourceRead(k.data, k.cuts, k.off, TK_READ_SIZE)
             k1 == [k EXCEPT !.last_read = SubSeq(@, 1, k.rewinds) \o chunk,
                             !.off = @ + Len(chunk),
                             !.position = k.rewinds,
                             !.last = "advance"]
         IN  [k1 EXCEPT !.safe = @ /\ TK_in_buffer(k1)]
    ELSE [k EXCEPT !.position = @ + 1, !.last = "advance"]

\* Tokenizer::rewind
TK_rewind(k, old_val) ==
    IF k.position <= 0
    THEN [k EXCEPT !.panicked = TRUE, !.safe = FALSE]
    ELSE LET k1 == [k EXCEPT !.position = @ - 1,
                             !.last_read[k.position] = old_val,
                             !.last = "rewind"]
         IN  [k1 EXCEPT !.safe = @ /\ k.last = "advance" /\ TK_in_buffer(k1)]

\* Tokenizer::consume_comment
RECURSIVE TK_consume_comment(_)
TK_consume_comment(k) ==
    IF TK_peek(k) \in {None, NEWLINE} THEN k
    ELSE TK_consume_comment(TK_advance(k))

\* Tokenizer::consume_whitespace
RECURSIVE TK_consume_whitespace(_)
TK_consume_whitespace(k) ==
    IF TK_peek(k) = None \/ ~is_whitespace(TK_peek(k)) THEN k
    ELSE TK_consume_whitespace(TK_advance(k))

\* Tokenizer::is_special_character
is_special_character(data) == data \in {OPEN_BLOCK, CLOSE_BLOCK}

\* Tokenizer::read_quote_string behind the opening quote: [k, text]
RECURSIVE TK_quote_loop(_, _, _)
TK_quote_loop(k, string, cancelled) ==
    LET data == TK_peek(k)
    IN  IF data = None THEN [k |-> k, text |-> string]
        ELSE IF ~cancelled /\ data = QUOTE
        THEN [k |-> TK_advance(k), text |-> string]
        ELSE IF ~cancelled /\ data = CANCEL
        THEN TK_quote_loop(TK_advance(k), string, TRUE)
        ELSE TK_quote_loop(TK_advance(k), Append(string, data), FALSE)

TK_read_quote_string(k) == TK_quote_loop(TK_advance(k), <<>>, FALSE)

\* read_quoteless_string from the tests of cancelled on: [k, text]. data is
\* the character the iteration peeked, k the tokenizer it goes on with.
RECURSIVE TK_quoteless_loop(_, _, _)
TK_quoteless_rest(k, data, string, cancelled) ==
    IF cancelled
    THEN TK_quoteless_loop(TK_advance(k), Append(string, data), FALSE)
    ELSE IF is_whitespace(data) THEN [k |-> TK_advance(k), text |-> string]
    ELSE IF data = CANCEL THEN TK_quoteless_loop(TK_advance(k), string, TRUE)
    ELSE IF is_special_character(data) THEN [k |-> k, text |-> string]
    ELSE TK_quoteless_loop(TK_advance(k), Append(string, data), FALSE)

\* what read_quoteless_string does at a /, k1 being the tokenizer behind it
TK_quoteless_comment(k1, data, string, cancelled) ==
    IF TK_peek(k1) = COMMENT
    THEN [k |-> TK_consume_comment(k1),
          text |-> IF cancelled THEN Append(string, CANCEL) ELSE string]
    ELSE TK_quoteless_rest(TK_rewind(k1, COMMENT), data, string, cancelled)

\* Tokenizer::read_quoteless_string (one iteration of its loop and the rest)
TK_quoteless_loop(k, string, cancelled) ==
    LET data == TK_peek(k)
    IN  IF data = None THEN [k |-> k, text |-> string]
        ELSE IF data = COMMENT /\ k.rewinds > 0
        THEN TK_quoteless_comment(TK_advance(k), data, string, cancelled)
        ELSE TK_quoteless_rest(k, data, string, cancelled)

TK_read_quoteless_string(k) == TK_quoteless_loop(k, <<>>, FALSE)

TextOf(r) == [k |-> r.k, tok |-> Token("Text", r.text)]

\* what next_token does at a / that no second / follows
TK_lone_slash(k1) == TextOf(TK_read_quoteless_string(TK_rewind(k1, COMMENT)))

\* Tokenizer::next_token: [k, tok]
RECURSIVE TK_next_token(_)
TK_first(k, first) ==
    CASE first = None -> [k |-> k, tok |-> Token("Eof", <<>>)]
      [] first = OPEN_BLOCK -> [k |-> TK_advance(k), tok |-> Token("OpenBlock", <<>>)]
      [] first = CLOSE_BLOCK -> [k |-> TK_advance(k), tok |-> Token("CloseBlock", <<>>)]
      [] first = QUOTE -> TextOf(TK_read_quote_string(k))
      [] first = COMMENT /\ k.rewinds > 0 ->
            IF TK_peek(TK_advance(k)) = COMMENT
            THEN TK_next_token(TK_consume_comment(TK_advance(k)))
            ELSE TK_lone_slash(TK_advance(k))
      [] OTHER -> TextOf(TK_read_quoteless_string(k))

TK_after_whitespace(k) == TK_first(k, TK_peek(k))

TK_next_token(k) == TK_after_whitespace(TK_consume_whitespace(k))

\* Tokenizer::from_io
TK_from_io(data, cuts, rewinds) ==
    LET chunk == SourceRead(data, cuts, 0, TK_READ_SIZE)
    IN  [data |-> data, cuts |-> cuts, off |-> Len(chunk), rewinds |-> rewinds,
         last_read |-> [i \in 1..rewinds |-> NUL] \o chunk,
         position |-> rewinds,
         last |-> "init", safe |-> TRUE, panicked |-> FALSE]

\* The offset in the data of the character peek returns.
TK_offset(k) == k.off - (TK_max_read(k) - k.position)

\* The tokens next_token returns, up to the first Eof.
RECURSIVE TK_tokens(_)
TK_tokens(k) ==
    LET r == TK_next_token(k)
    IN  IF r.tok.tag = "Eof" \/ r.k.panicked THEN <<r.tok>>
        ELSE <<r.tok>> \o TK_tokens(r.k)

(***************************************************************************)
(* tkout.toks is the tokens next_token has returned, up to the first Eof;   *)
(* tkout.status is panic when the assert! of rewind failed in the call.     *)
(***************************************************************************)
MaxTkLen == 3

TkAlphabet == {"a", SPACE, NEWLINE, COMMENT, CANCEL, QUOTE, OPEN_BLOCK, CLOSE_BLOCK}

NoTokens == [status |-> "ok", toks |-> <<>>]

Ended(toks) == toks # <<>> /\ toks[Len(toks)].tag = "Eof"

InitTkz ==
    /\ debug \in BOOLEAN
    /\ \E data \in TextsOver(TkAlphabet, MaxTkLen) : \E cuts \in OneCut(data) :
        tk = TK_from_io(data, cuts, NUM_REWINDS)
    /\ tkout = NoTokens
    /\ meta = Idle /\ disk = Idle /\ file = Idle /\ out = Idle
    /\ tr = Idle /\ tpc = Idle /\ kvin = Idle /\ kvres = Idle
    /\ vpkin = Idle /\ vpkres = Idle /\ kvget = Idle /\ cr = Idle

\* the caller calls next_token()
NextToken ==
    /\ tkout.status = "ok"
    /\ LET r == TK_next_token(tk)
       IN  /\ tk' = r.k
           /\ tkout' = [status |-> IF r.k.panicked THEN "panic" ELSE "ok",
                        toks |-> IF Ended(tkout.toks) THEN tkout.toks
                                 ELSE Append(tkout.toks, r.tok)]
    /\ UNCHANGED <<debug, meta, disk, file, out, tr, tpc, kvin, kvres, vpkin,
                   vpkres, kvget, cr>>

NextTkz == NextToken

SpecTkz == InitTkz /\ [][NextTkz]_vars

\* The length of the run of characters other than whitespace s starts with.
RECURSIVE WordLen(_)
WordLen(s) ==
    IF s = <<>> \/ is_whitespace(Head(s)) THEN 0 ELSE 1 + WordLen(Tail(s))

\* The runs of characters other than whitespace in s, in order.
RECURSIVE Words(_)
Words(s) ==
    IF s = <<>> THEN <<>>
    ELSE IF is_whitespace(Head(s)) THEN Words(Tail(s))
    ELSE <<SubSeq(s, 1, WordLen(s))>> \o Words(SubSeq(s, WordLen(s) + 1, Len(s)))

\* s is made of ordinary characters, whitespace and /, and no / follows a /
LoneSlashesOnly(s) ==
    /\ \A i \in 1..Len(s) : s[i] \in {"a", COMMENT, SPACE, NEWLINE}
    /\ \A i \in 1..(Len(s) - 1) : ~(s[i] = COMMENT /\ s[i + 1] = COMMENT)

\* C38: a / that no second / follows is never lost. On an input of ordinary
\* characters, whitespace and such slashes the tokens next_token returns are
\* the runs of characters between the whitespace, each as a Text with every
\* / in its place, and then Eof; a run that is a single / is Text("/"), also
\* at the end of the input.
C38_LoneSlashNeverLost ==
    (tkout.status = "ok" /\ Ended(tkout.toks) /\ LoneSlashesOnly(tk.data))
    => tkout.toks = [i \in 1..Len(Words(tk.data)) |-> Token("Text", Words(tk.data)[i])]
                    \o <<Token("Eof", <<>>)>>

(***************************************************************************)
(* The two tokenizers with a rewind slot, TokenReader and Tokenizer, on the *)
(* same source.                                                             *)
(***************************************************************************)
InitRw ==
    /\ debug \in BOOLEAN
    /\ \E data \in TextsOver(TkAlphabet, MaxTkLen) : \E cuts \in OneCut(data) :
        /\ tr = TR_from_io(data, cuts)
        /\ tk = TK_from_io(data, cuts, NUM_REWINDS)
    /\ tpc = [pc |-> "from_io", branch |-> "none", at |-> 0, n |-> 0]
    /\ tkout = NoTokens
    /\ meta = Idle /\ disk = Idle /\ file = Idle /\ out = Idle
    /\ kvin = Idle /\ kvres = Idle
    /\ vpkin = Idle /\ vpkres = Idle /\ kvget = Idle /\ cr = Idle

NextRw == NextTok \/ NextToken

SpecRw == InitRw /\ [][NextRw]_vars

\* C34: in both tokenizers a rewind runs only directly after an advance, so
\* the position never drops below 0, the assert! of Tokenizer::rewind holds,
\* and every peek reads a byte of the look-ahead buffer (or reports the end
\* of the input without reading).
C34_RewindSafe ==
    /\ tpc.pc # "panic"
    /\ tr.position >= 0
    /\ TR_max_read(tr) = REWIND_SIZE \/ tr.position < TR_max_read(tr)
    /\ tkout.status # "panic" /\ ~tk.panicked
    /\ tk.safe
    /\ tk.position >= 0
    /\ TK_in_buffer(tk)

\* reached: both tokenizers have rewound into the rewind slot, the / being
\* the last byte of a read
C34_Witness ==
    /\ tpc.branch = "rewind" /\ tr.position = 0
    /\ tk.last_read[1] = COMMENT
    /\ tkout.toks = <<Token("Text", <<COMMENT, "a">>)>>

(***************************************************************************)
(* Object::from_io (src/srcrs/src/kv/reader.rs), the parser over the        *)
(* Tokenizer of src/srcrs/src/kv/tokenizer.rs.                              *)
(*                                                                         *)
(* An Object is the function from its keys to their values; a value is      *)
(* [kind |-> "String", text] or [kind |-> "Object", obj]. A Result is       *)
(* [st |-> "ok", ...] or [st |-> "err", tok], tok being the token of        *)
(* ReaderError::InvalidToken; k is the tokenizer behind the call.           *)
(***************************************************************************)
ValueString(text) == [kind |-> "String", text |-> text]
ValueObject(obj) == [kind |-> "Object", obj |-> obj]

\* Object::default()
ObjectDefault == <<>>

\* HashMap::insert
HashMap_insert(obj, key, val) ==
    [x \in DOMAIN obj \cup {key} |-> IF x = key THEN val ELSE obj[x]]

EntryOk(k, key, val) == [st |-> "ok", k |-> k, key |-> key, val |-> val]
InvalidToken(k, tok) == [st |-> "err", k |-> k, tok |-> tok]

RECURSIVE Object_read_entry(_)
RECURSIVE Object_block_step(_, _, _)

\* the match of the loop inside read_entry on an attempted entry e
Object_block_step(key, object, e) ==
    IF e.st = "err"
    THEN IF e.tok.tag = "CloseBlock" THEN EntryOk(e.k, key, ValueObject(object))
         ELSE e
    ELSE LET inner == HashMap_insert(object, e.key, e.val)
         IN  Object_block_step(key, inner, Object_read_entry(e.k))

\* the match of read_entry on val_token, r being what next_token returned
Object_read_value(key, r) ==
    CASE r.tok.tag = "Text" -> EntryOk(r.k, key, ValueString(r.tok.text))
      [] r.tok.tag = "OpenBlock" ->
            Object_block_step(key, ObjectDefault, Object_read_entry(r.k))
      [] OTHER -> InvalidToken(r.k, r.tok)

\* the expect! of read_entry on the key, r being what next_token returned
Object_read_key(r) ==
    IF r.tok.tag = "Text" THEN Object_read_value(r.tok.text, TK_next_token(r.k))
    ELSE InvalidToken(r.k, r.tok)

\* Object::read_entry
Object_read_entry(k) == Object_read_key(TK_next_token(k))


\* the match of the loop of from_io on an attempted entry e
RECURSIVE Object_outer_step(_, _)
Object_outer_step(outer_object, e) ==
    IF e.st = "err"
    THEN IF e.tok.tag = "Eof"
         THEN [status |-> "ok", obj |-> outer_object, k |-> e.k]
         ELSE [status |-> "err", tok |-> e.tok, k |-> e.k]
    ELSE LET outer == HashMap_insert(outer_object, e.key, e.val)
         IN  Object_outer_step(outer, Object_read_entry(e.k))

\* Object::from_io on the tokenizer Tokenizer::from_io returned
Object_from_io(k) == Object_outer_step(ObjectDefault, Object_read_entry(k))

MaxObjLen == 5

ObjAlphabet == {"a", "b", SPACE, OPEN_BLOCK, CLOSE_BLOCK}

NotRead == [status |-> "none"]

InitObj ==
    /\ debug \in BOOLEAN
    /\ \E data \in TextsOver(ObjAlphabet, MaxObjLen) : \E cuts \in OneCut(data) :
        tk = TK_from_io(data, cuts, 0)
    /\ tkout = NotRead
    /\ meta = Idle /\ disk = Idle /\ file = Idle /\ out = Idle
    /\ tr = Idle /\ tpc = Idle /\ kvin = Idle /\ kvres = Idle
    /\ vpkin = Idle /\ vpkres = Idle /\ kvget = Idle /\ cr = Idle

\* Object::from_io(read)
ObjFromIo ==
    /\ tkout.status = "none"
    /\ LET r == Object_from_io(tk)
       IN  /\ tk' = r.k
           /\ tkout' = IF r.status = "ok" THEN [status |-> "ok", obj |-> r.obj]
                       ELSE [status |-> "err", tok |-> r.tok]
    /\ UNCHANGED <<debug, meta, disk, file, out, tr, tpc, kvin, kvres, vpkin,
                   vpkres, kvget, cr>>

NextObj == ObjFromIo

SpecObj == InitObj /\ [][NextObj]_vars

\* What the grammar says of the tokens toks from index i on, depth blocks
\* being open and value telling whether a value is due: complete, no_value
\* (Eof or } where a value is due), unclosed (Eof inside a block), no_key
\* ({ where a key is due) or stray_close (} at top level).
RECURSIVE Grammar(_, _, _, _)
Grammar(toks, i, depth, value) ==
    LET tag == toks[i].tag
    IN  IF value
        THEN CASE tag = "Text" -> Grammar(toks, i + 1, depth, FALSE)
               [] tag = "OpenBlock" -> Grammar(toks, i + 1, depth + 1, FALSE)
               [] OTHER -> "no_value"
        ELSE CASE tag = "Text" -> Grammar(toks, i + 1, depth, TRUE)
               [] tag = "CloseBlock" ->
                    IF depth > 0 THEN Grammar(toks, i + 1, depth - 1, FALSE)
                    ELSE "stray_close"
               [] tag = "Eof" -> IF depth > 0 THEN "unclosed" ELSE "complete"
               [] OTHER -> "no_key"

\* The tokens of the input the tokenizer k was made for.
InputTokens(k) == TK_tokens(TK_from_io(k.data, k.cuts, k.rewinds))

\* C39: when a value is due and the token is Eof or }, at top level or in a
\* block, from_io returns an InvalidToken error, and so it does when the
\* input ends inside a block: from_io does not return Ok for an input with a
\* key without a value or with an unclosed block.
C39_MissingValueIsInvalidToken ==
    (/\ tkout.status # "none"
     /\ Grammar(InputTokens(tk), 1, 0, FALSE) \in {"no_value", "unclosed"})
    => tkout.status = "err"

(***************************************************************************)
(* The CharReader by itself: from_io, then advance() as often as the caller *)
(* likes. cr is what the last call returned (Ok with the reader, or Err),   *)
(* together with cr.prev, what peek() returned before that call.            *)
(***************************************************************************)
MaxCrLen == 4

CrAlphabet == {"a", SPACE, NEWLINE, COMMENT, ESCAPE, QUOTE}

\* no peek yet
NoPeek == ReadChar("NoPeek", None)

InitCr ==
    /\ debug \in BOOLEAN
    /\ \E t \in TextsOver(CrAlphabet, MaxCrLen), tail \in {<<>>, <<"a">>} :
         \E cuts \in OneCut(t \o tail) :
            LET r == CR_from_io(t \o tail, cuts)
            IN  cr = [st |-> r.st, c |-> r.c, prev |-> NoPeek]
    /\ meta = Idle /\ disk = Idle /\ file = Idle /\ out = Idle
    /\ tr = Idle /\ tpc = Idle /\ kvin = Idle /\ kvres = Idle
    /\ vpkin = Idle /\ vpkres = Idle /\ kvget = Idle
    /\ tk = Idle /\ tkout = Idle

\* the caller calls advance()
CrAdvance ==
    /\ cr.st = "ok"
    /\ LET r == CR_advance(cr.c)
       IN  cr' = [st |-> r.st, c |-> r.c, prev |-> cr.c.last_token]
    /\ UNCHANGED <<debug, meta, disk, file, out, tr, tpc, kvin, kvres, vpkin,
                   vpkres, kvget, tk, tkout>>

NextCr == CrAdvance

SpecCr == InitCr /\ [][NextCr]_vars

\* The offset in the data of the character peek_char returns.
CR_offset(c) == c.off - (Len(c.last_read) - c.position)

\* the reader stands, outside quotes, before a whitespace character or //
BeforeWhitespace(c) ==
    LET i == CR_offset(c) + 1
    IN  /\ ~c.is_quoted
        /\ i <= Len(c.data)
        /\ \/ is_whitespace(c.data[i])
           \/ c.data[i] = COMMENT /\ i < Len(c.data) /\ c.data[i + 1] = COMMENT

MaxFlagEntries == 2

FlagKeys == <<"a", "b", "d", "i">>
FlagNamesOfKeys == <<"f", "g", "h", "j">>
FlagKinds == {"None", "Normal", "Negated"}

FlagOf(kind, name) ==
    IF kind = "None" THEN NoFlag ELSE [kind |-> kind, name |-> <<name>>]

\* what a block holds: nothing, or the entry c with one of the flags
FlagInner ==
    {<<>>} \cup
    {<<[key |-> <<"c">>, flag |-> FlagOf(kind, "e"), block |-> FALSE,
        inner |-> <<>>]>> : kind \in FlagKinds}

\* the i-th entry of a document
FlagEntriesAt(i) ==
    {[key |-> <<FlagKeys[i]>>, flag |-> FlagOf(kind, FlagNamesOfKeys[i]),
      block |-> FALSE, inner |-> <<>>] : kind \in FlagKinds}
    \cup
    {[key |-> <<FlagKeys[i]>>, flag |-> FlagOf(kind, FlagNamesOfKeys[i]),
      block |-> TRUE, inner |-> inner] : kind \in FlagKinds, inner \in FlagInner}

RECURSIVE FlagDocsOf(_)
FlagDocsOf(n) ==
    IF n = 0 THEN {<<>>}
    ELSE {Append(doc, e) : doc \in FlagDocsOf(n - 1), e \in FlagEntriesAt(n)}

FlagDocs == UNION {FlagDocsOf(n) : n \in 1..MaxFlagEntries}

\* the text of a flag
FlagText(flag) ==
    CASE flag.kind = "None" -> <<>>
      [] flag.kind = "Normal" -> <<OPEN_FLAG>> \o flag.name \o <<CLOSE_FLAG>>
      [] flag.kind = "Negated" ->
             <<OPEN_FLAG, NEGATE>> \o flag.name \o <<CLOSE_FLAG>>

\* how a document is written: what stands between a value and its flag and
\* between two entries, and whether the text v is quoted
FlagStyles ==
    [flagsep : {<<>>, <<SPACE>>}, entrysep : {<<SPACE>>, <<NEWLINE>>},
     quoted : BOOLEAN]

\* the text of a sequence of entries
RECURSIVE WriteEntries(_, _)
WriteEntries(entries, style) ==
    IF entries = <<>> THEN <<>>
    ELSE LET e == entries[1]
             value == IF e.block
                      THEN <<OPEN_BLOCK>> \o WriteEntries(e.inner, style)
                           \o <<CLOSE_BLOCK>>
                      ELSE IF style.quoted THEN <<QUOTE, "v", QUOTE>>
                      ELSE <<"v">>
         IN  e.key \o <<SPACE>> \o value
             \o (IF e.flag = NoFlag THEN <<>>
                 ELSE style.flagsep \o FlagText(e.flag))
             \o (IF Len(entries) > 1 THEN style.entrysep ELSE <<>>)
             \o WriteEntries(Tail(entries), style)

\* the input is the text of a document; entries are the entries it was
\* written from
InitFlag ==
    /\ debug \in BOOLEAN
    /\ \E doc \in FlagDocs, style \in FlagStyles :
           kvin = [data |-> WriteEntries(doc, style), cuts |-> {},
                   entries |-> doc]
    /\ kvres = NotParsed
    /\ meta = Idle /\ disk = Idle /\ file = Idle /\ out = Idle
    /\ tr = Idle /\ tpc = Idle
    /\ vpkin = Idle /\ vpkres = Idle /\ kvget = Idle /\ cr = Idle /\ tk = Idle /\ tkout = Idle

NextFlag == FromIo

SpecFlag == InitFlag /\ [][NextFlag]_vars

\* the object holds the entry e: under its key, with its flag and its value
RECURSIVE Stored(_, _)
Stored(obj, e) ==
    /\ e.key \in DOMAIN obj
    /\ obj[e.key][1] = e.flag
    /\ IF e.block
       THEN /\ obj[e.key][2].kind = "Object"
            /\ DOMAIN obj[e.key][2].obj = {e.inner[i].key : i \in DOMAIN e.inner}
            /\ \A i \in DOMAIN e.inner : Stored(obj[e.key][2].obj, e.inner[i])
       ELSE obj[e.key][2] = [kind |-> "String", text |-> <<"v">>]

(***************************************************************************)
(* Claims about flags                                                      *)
(***************************************************************************)
\* C37: from_io stores an entry followed by `[name]` with Flag::Normal(name),
\* one followed by `[!name]` with Flag::Negated(name) and one with no
\* trailing flag with Flag::None; the flag belongs to the entry it trails,
\* also when the value of that entry is a block, and never to the entry
\* after it.
C37_FlagAttachesToTrailedEntry ==
    kvres.st # "none" =>
        /\ kvres.st = "ok"
        /\ DOMAIN kvres.v =
               {kvin.entries[i].key : i \in DOMAIN kvin.entries}
        /\ \A i \in DOMAIN kvin.entries : Stored(kvres.v, kvin.entries[i])

\* `a {c v[e]} [!f] b v`: the block of a has the negated flag f, its entry c
\* the flag e, and the entry b after them no flag
C37_Witness ==
    /\ kvres.st = "ok"
    /\ kvin.data = <<"a", SPACE, OPEN_BLOCK, "c", SPACE, "v", OPEN_FLAG, "e",
                     CLOSE_FLAG, CLOSE_BLOCK, OPEN_FLAG, NEGATE, "f",
                     CLOSE_FLAG, SPACE, "b", SPACE, "v">>
    /\ kvres.v[<<"a">>][1] = [kind |-> "Negated", name |-> <<"f">>]
    /\ kvres.v[<<"a">>][2].obj[<<"c">>] =
           <<[kind |-> "Normal", name |-> <<"e">>],
             [kind |-> "String", text |-> <<"v">>]>>
    /\ kvres.v[<<"b">>] = StringEntry(<<"v">>)
=============================================================================
